---- MODULE Spec2Model ----
(***************************************************************************)
(* A model of lumi_llm: the LangGraph tool agent (agents/tool_agent.py),   *)
(* the MCP tool client's tools/call path (mcp/client.py) and the IdaaS     *)
(* token cache (auth/idaas.py).                                            *)
(*                                                                         *)
(* Python values are modelled as follows.  A str is a sequence of          *)
(* one-character strings; None is the reserved value None below, which no  *)
(* text equals.  A dict is a record; a key the code may leave out is a     *)
(* field the record may lack, read with Get as dict.get reads it.  A list  *)
(* is a sequence.                                                          *)
(***************************************************************************)
EXTENDS Integers, Sequences, FiniteSets, TLC

VARIABLES
    \* ---- one run of the graph built by create_tool_agent ----
    messages,           \* AgentState["messages"]
    thinking_events,    \* AgentState["thinking_events"]
    tool_calls_made,    \* AgentState["tool_calls_made"]
    final_answer,       \* AgentState["final_answer"]
    max_tool_calls,     \* the max_tool_calls argument of create_tool_agent
    pc,                 \* the node the run is at: "llm", "tools", "finalize", "END", "raised"
    tc_index,           \* execute_tools: position of the for loop in tool_calls
    new_messages,       \* execute_tools: local new_messages
    tool_count,         \* execute_tools: local tool_count
    next_id,            \* ids handed out so far by the provider (uuid4 per ToolCall)
    llm_inputs,         \* the message list of every llm_provider.generate call, in order
    tool_log,           \* every mcp_client.call_tool call: its invocation id, name and outcome
    last_reply,         \* the server reply to the latest tools/call request
    provider_calls,     \* what the llm node's latest generate call did: token call, LLM request
    direct_call,        \* the latest GeminiProvider call made outside the graph, and what it did
    discovered,         \* mcp_client.tools, the MCPTool list the agent is created with
    request,            \* the latest request body GeminiProvider built, and the messages it was built from
    converted,          \* what convert_mcp_tools_to_gemini was called on and returned
    thinking_callback,  \* the thinking_callback argument of create_tool_agent
    delivered,          \* the events passed to thinking_callback.on_thinking, in order
    raised_by,          \* what raised the exception that ended the run: "none", "llm", "tool", "observer"
    \* ---- one IdaaSClient and its callers ----
    config,             \* IdaaSClient.config
    token,              \* IdaaSClient._token
    lock,               \* IdaaSClient._lock: its holder, or Nobody
    async_lock,         \* IdaaSClient._async_lock: NotCreated, or its holder, or Nobody
    now,                \* time.time(), in seconds
    call,               \* per caller: the get_token / get_token_sync call it is in
    calls,              \* number of get_token / get_token_sync calls started
    sends,              \* number of requests sent to the identity endpoint
    cleared,            \* whether clear_token has been called
    clear_mark,         \* the number of requests sent when clear_token last returned
    first_store,        \* the first token stored, and the number of the request that fetched it
    fetched_for,        \* the body of the request that fetched the cached token (ScopeSpec)
    returned,           \* the credential strings returned so far
    paths_used,         \* the call paths used so far
    started_valid,      \* whether some call started while the cached token was valid
    failed,             \* whether some call has raised
    overlap,            \* whether two calls have been in progress at once
    late_start,         \* whether some call started after another had ended
    last_op,            \* the latest operation begun on the client: "none", "get", "clear"
    last_done,          \* the call that ended in the latest step, if one did: what it was and what it gave
    \* ---- one MCPClient and the tasks that use it ----
    _tools,             \* MCPClient._tools
    _session_id,        \* MCPClient._session_id
    _message_endpoint,  \* MCPClient._message_endpoint
    connect_pc,         \* the request of connect that awaits its reply, or "idle"
    connect_log,        \* the requests the latest connect has sent, and whether each succeeded
    connect_surface,    \* "async" for connect, "sync" for connect_sync: the latest one begun
    lifecycle,          \* "new", "connected" (a connect stored a tool list since), "disconnected"
    mcp_ops,            \* number of connect, call_tool and disconnect calls begun
    mcp_done,           \* the operation that ended in the latest step, if one did
    \* SafeChainOrchestrator.run (examples/safechain/chat.py)
    safechain,          \* the locals of run, the inputs handed to the agent, the outcome
    \* ChatSession (examples/chat.py)
    session             \* conversation_history, and what the latest call on the session did

agent_vars == <<messages, thinking_events, tool_calls_made, final_answer,
                max_tool_calls, pc, tc_index, new_messages, tool_count,
                next_id, llm_inputs, tool_log, last_reply, provider_calls,
                direct_call, discovered, request, converted,
                thinking_callback, delivered, raised_by>>

token_vars == <<config, token, lock, async_lock, now, call, calls, sends, cleared,
                clear_mark,
                first_store, returned, paths_used, started_valid, failed,
                overlap, late_start, last_op, last_done, fetched_for>>

mcp_vars == <<_tools, _session_id, _message_endpoint, connect_pc, connect_log,
              connect_surface, lifecycle, mcp_ops, mcp_done>>

chat_vars == <<safechain, session>>

vars == <<agent_vars, token_vars, mcp_vars, chat_vars>>

----------------------------------------------------------------------------
(* Bounds of the model *)

\* largest max_tool_calls a run is configured with
MaxBudget == 2
\* largest number of tool invocations one LLM response carries
MaxBatch == 2
\* number of threads / tasks that use the IdaaSClient
NumCallers == 2
\* largest number of get_token / get_token_sync calls made on the client
MaxCalls == 2
\* the clock runs from 0 to MaxTime seconds
MaxTime == 2
\* largest number of connect, call_tool and disconnect calls on the MCPClient
MaxOps == 3

\* the largest max_iterations of SafeChainOrchestrator
MaxIterations == 2

----------------------------------------------------------------------------
(* Python values *)

None == <<"None">>

Truthy(s) == s # None /\ s # <<>>

Get(d, k, default) == IF k \in DOMAIN d THEN d[k] ELSE default

\* the texts an LLM response may carry: None, "4", "56"
LlmTexts == {None, <<"4">>, <<"5", "6">>}

ToolNames == {"multiply"}

\* the argument payload of an invocation: {"a": 7, "b": 8}, kept opaque
Arguments == <<"a", "=", "7", ",", "b", "=", "8">>


----------------------------------------------------------------------------
(* mcp/client.py: the tools/call path of a connected MCPClient *)

\* A JSON-RPC message is a record that may have the fields result and error.
\* The server's reply to one request is its framing (the content-type) and
\* its body: the messages on the data: lines of an SSE body, one message
\* for a JSON body.
ToolResultOk ==
    [content |-> <<[type |-> "text", text |-> <<"5", "6">>]>>, isError |-> FALSE]

ToolResultError ==
    [content |-> <<[type |-> "text", text |-> <<"b", "o", "o", "m">>]>>, isError |-> TRUE]

RpcResult(r) == [jsonrpc |-> "2.0", result |-> r]

RpcError == [jsonrpc |-> "2.0", error |-> [code |-> -32603]]

Framings == {"application/json", "text/event-stream"}

\* the replies a tool server gives to tools/call
ToolReplies ==
    [framing : Framings,
     body : {<<RpcResult(ToolResultOk)>>, <<RpcResult(ToolResultError)>>, <<RpcError>>}]

NoReply == [framing |-> "none", body |-> <<>>]

\* what the server's reply says: a JSON-RPC error, a result with
\* isError = true, or another result
ReplyKind(reply) ==
    IF \E i \in 1..Len(reply.body) : "error" \in DOMAIN reply.body[i] THEN "error"
    ELSE IF \E i \in 1..Len(reply.body) :
                /\ "result" \in DOMAIN reply.body[i]
                /\ Get(reply.body[i].result, "isError", FALSE)
         THEN "isError"
    ELSE "ok"

EmptyDict == <<>>

Returned(v) == [raised |-> FALSE, value |-> v]

Raised(e) == [raised |-> TRUE, error |-> e]

\* _parse_sse_response_async: scan the data: lines in order; the last result
\* seen is returned, an error message seen first raises
ParseSse_NoError(lines, result) ==
    IF \E i \in 1..Len(lines) : "result" \in DOMAIN lines[i]
    THEN Returned(lines[CHOOSE i \in 1..Len(lines) : "result" \in DOMAIN lines[i]].result)
    ELSE Returned(result)

RECURSIVE ParseSse(_, _)
ParseSse(lines, result) ==
    IF lines = <<>> THEN Returned(result)
    ELSE LET data == Head(lines) IN
         IF "result" \in DOMAIN data
         THEN ParseSse(Tail(lines), data.result)
         ELSE IF "error" \in DOMAIN data
              THEN Raised("MCP error")
              ELSE ParseSse(Tail(lines), result)

\* _send_request after a 2xx response: the JSON-RPC result, or a raise
SendRequest_IgnoresError(reply) ==
    IF reply.framing = "text/event-stream"
    THEN ParseSse(reply.body, EmptyDict)
    ELSE Returned(Get(reply.body[1], "result", EmptyDict))

SendRequest(reply) ==
    IF reply.framing = "text/event-stream"
    THEN ParseSse(reply.body, EmptyDict)
    ELSE LET result == reply.body[1] IN
         IF "error" \in DOMAIN result
         THEN Raised("MCP error")
         ELSE Returned(Get(result, "result", EmptyDict))

\* "\n".join(text_parts)
RECURSIVE JoinLines(_)
JoinLines(parts) ==
    IF parts = <<>> THEN <<>>
    ELSE IF Len(parts) = 1 THEN parts[1]
    ELSE parts[1] \o <<"\n">> \o JoinLines(Tail(parts))

\* the text_parts list built by call_tool's loop
TextParts_KeepsAll(content) ==
    [k \in 1..Len(content) |-> Get(content[k], "text", <<>>)]

RECURSIVE TextParts(_)
TextParts(content) ==
    IF content = <<>> THEN <<>>
    ELSE LET item == Head(content) IN
         IF Get(item, "type", "") = "text"
         THEN <<Get(item, "text", <<>>)>> \o TextParts(Tail(content))
         ELSE TextParts(Tail(content))

\* MCPToolResult: content is the joined text, or the raw content list when
\* the reply has no text part
MCPToolResult(content, is_error) ==
    LET text_parts == TextParts(content) IN
    [is_text |-> text_parts # <<>>,
     text |-> JoinLines(text_parts),
     raw |-> IF text_parts # <<>> THEN <<>> ELSE content,
     is_error |-> is_error]

\* MCPClient.call_tool
call_tool(reply) ==
    LET r == SendRequest(reply) IN
    IF r.raised THEN r
    ELSE Returned(MCPToolResult(Get(r.value, "content", <<>>),
                                Get(r.value, "isError", FALSE)))

----------------------------------------------------------------------------
(* providers/gemini.py: what a GeminiProvider call does before it parses *)
(* the response                                                           *)

\* self.config.scope
LlmScope == <<"scope.llm">>

Methods == {"generate", "generate_sync", "generate_stream"}

\* what auth_client.get_token / get_token_sync gives the provider
TokenOutcomes == {Raised("token"), Returned(<<"T">>)}

\* _get_headers / _get_headers_sync: the token call
TokenCall(method, tok) ==
    [op |-> IF method = "generate_sync" THEN "get_token_sync" ELSE "get_token",
     scope |-> LlmScope, raised |-> tok.raised]

\* client.post / client.stream: the LLM request
LlmRequest(method, tok) ==
    [op |-> "post",
     url |-> IF method = "generate_stream" THEN "streamGenerateContent"
             ELSE "generateContent",
     authorization |-> <<"B", "e", "a", "r", "e", "r", " ">> \o tok.value]

\* generate / generate_sync / generate_stream up to the LLM request: the
\* external calls made, in order
GeminiCalls_PostsWithoutToken(method, tok) ==
    <<TokenCall(method, tok)>> \o
        <<LlmRequest(method, IF tok.raised THEN Returned(<<>>) ELSE tok)>>

GeminiCalls(method, tok) ==
    IF tok.raised THEN <<TokenCall(method, tok)>>
    ELSE <<TokenCall(method, tok), LlmRequest(method, tok)>>

NoDirectCall == [method |-> "none", calls |-> <<>>, raised |-> FALSE]

----------------------------------------------------------------------------
(* mcp/tool_converter.py and GeminiProvider._convert_tools_to_gemini *)

\* dict.pop(k, None) on a copy
Pop(d, k) == [x \in DOMAIN d \ {k} |-> d[x]]

\* input schemas: plain, with the two draft keys, with additionalProperties
\* nested in a property, with the two draft keys only
PlainSchema == [type |-> "object", properties |-> [a |-> [type |-> "number"]]]

DraftSchema ==
    PlainSchema @@ ("$schema" :> <<"draft-07">>) @@ [additionalProperties |-> FALSE]

NestedSchema ==
    [type |-> "object",
     properties |-> [q |-> [type |-> "object", additionalProperties |-> FALSE]],
     required |-> <<"q">>]

MetaSchema == ("$schema" :> <<"draft-07">>) @@ [additionalProperties |-> TRUE]

InputSchemas == {EmptyDict, PlainSchema, DraftSchema, NestedSchema, MetaSchema}

\* an MCPTool
Tool(name, input_schema) ==
    [name |-> name, description |-> <<"d", "(">> \o <<name>> \o <<")">>,
     input_schema |-> input_schema]

\* the tool lists a connect may have discovered
ToolLists ==
    {<<>>,
     <<Tool("multiply", PlainSchema)>>,
     <<Tool("multiply", EmptyDict)>>,
     <<Tool("multiply", DraftSchema), Tool("add", PlainSchema)>>,
     <<Tool("add", MetaSchema), Tool("multiply", NestedSchema)>>,
     <<Tool("query", NestedSchema), Tool("add", EmptyDict), Tool("multiply", DraftSchema)>>}

\* the tool list of a run whose tools do not matter
DefaultTools == <<Tool("multiply", PlainSchema)>>

\* convert_mcp_tools_to_openai
DefaultParameters == [type |-> "object", properties |-> EmptyDict, required |-> <<>>]

convert_mcp_tools_to_openai(tools) ==
    [k \in 1..Len(tools) |->
        [type |-> "function",
         function |->
            [name |-> tools[k].name, description |-> tools[k].description,
             parameters |-> IF tools[k].input_schema # EmptyDict
                            THEN tools[k].input_schema
                            ELSE DefaultParameters]]]

\* convert_mcp_tools_to_gemini: the declarations returned, and the tool list
\* as the call leaves it
GeminiDeclaration(tool, schema) ==
    IF tool.input_schema # EmptyDict
    THEN [name |-> tool.name, description |-> tool.description, parameters |-> schema]
    ELSE [name |-> tool.name, description |-> tool.description]

convert_mcp_tools_to_gemini_InPlace(tools) ==
    LET stripped(tool) == Pop(Pop(tool.input_schema, "$schema"), "additionalProperties") IN
    [declarations |->
        [k \in 1..Len(tools) |-> GeminiDeclaration(tools[k], stripped(tools[k]))],
     tools |-> [k \in 1..Len(tools) |-> [tools[k] EXCEPT !.input_schema = stripped(tools[k])]]]

convert_mcp_tools_to_gemini(tools) ==
    LET copy(tool) == tool.input_schema
        stripped(tool) == Pop(Pop(copy(tool), "$schema"), "additionalProperties")
    IN
    [declarations |->
        [k \in 1..Len(tools) |-> GeminiDeclaration(tools[k], stripped(tools[k]))],
     tools |-> tools]

\* GeminiProvider._convert_tools_to_gemini returns None, and
\* _build_request_body then sets no "tools" key
NoTools == <<>>

\* convert_mcp_tools_to_gemini has not been called
NotConverted == [called |-> FALSE]

\* GeminiProvider._convert_tools_to_gemini
_convert_tools_to_gemini(tools) ==
    IF tools = <<>> THEN NoTools
    ELSE <<[functionDeclarations |->
              [k \in 1..Len(tools) |->
                  LET func == IF "function" \in DOMAIN tools[k] THEN tools[k].function
                              ELSE tools[k]
                      declaration == [name |-> func.name,
                                      description |-> Get(func, "description", <<>>)]
                  IN IF "parameters" \in DOMAIN func
                     THEN declaration @@ [parameters |-> func.parameters]
                     ELSE declaration]]>>

\* create_tool_agent: the tools handed to llm_provider.generate
AgentTools(mcp_tools) == convert_mcp_tools_to_openai(mcp_tools)

\* _convert_messages_to_gemini: the contents entries of one message
SystemInstructionOf(msgs) ==
    LET at == {i \in 1..Len(msgs) : msgs[i].role = "system"} IN
    IF at = {} THEN None
    ELSE Get(msgs[CHOOSE i \in at : \A j \in at : j <= i], "content", <<>>)

ContentsOf_TextLast(msg) ==
    LET content == Get(msg, "content", <<>>) IN
    IF msg.role = "user" THEN <<[role |-> "user", parts |-> <<[text |-> content]>>]>>
    ELSE IF msg.role = "assistant"
    THEN LET tool_calls == Get(msg, "tool_calls", <<>>) IN
         <<[role |-> "model",
            parts |->
               [k \in 1..Len(tool_calls) |->
                   [functionCall |-> [name |-> tool_calls[k].name,
                                      args |-> tool_calls[k].arguments]]]
               \o (IF Truthy(content) THEN <<[text |-> content]>> ELSE <<>>)]>>
    ELSE IF msg.role = "tool"
    THEN <<[role |-> "user",
            parts |-> <<[functionResponse |->
                           [name |-> Get(msg, "name", <<>>),
                            response |-> [result |-> content]]]>>]>>
    ELSE <<>>

ContentsOf(msg) ==
    LET content == Get(msg, "content", <<>>) IN
    IF msg.role = "user" THEN <<[role |-> "user", parts |-> <<[text |-> content]>>]>>
    ELSE IF msg.role = "assistant"
    THEN LET tool_calls == Get(msg, "tool_calls", <<>>) IN
         <<[role |-> "model",
            parts |->
               (IF Truthy(content) THEN <<[text |-> content]>> ELSE <<>>)
               \o [k \in 1..Len(tool_calls) |->
                      [functionCall |-> [name |-> tool_calls[k].name,
                                         args |-> tool_calls[k].arguments]]]]>>
    ELSE IF msg.role = "tool"
    THEN <<[role |-> "user",
            parts |-> <<[functionResponse |->
                           [name |-> Get(msg, "name", <<>>),
                            response |-> [result |-> content]]]>>]>>
    ELSE <<>>

\* _convert_messages_to_gemini
RECURSIVE ContentsFrom(_)
ContentsFrom(msgs) ==
    IF msgs = <<>> THEN <<>>
    ELSE ContentsOf(Head(msgs)) \o ContentsFrom(Tail(msgs))

_convert_messages_to_gemini(msgs) ==
    [contents |-> ContentsFrom(msgs),
     system_instruction |-> SystemInstructionOf(msgs)]

\* GeminiProvider._build_request_body, generationConfig left out
BuildRequestBody(msgs, tools) ==
    LET converted_messages == _convert_messages_to_gemini(msgs)
        system_instruction == converted_messages.system_instruction
        gemini_tools == _convert_tools_to_gemini(tools)
    IN [contents |-> converted_messages.contents]
       @@ (IF Truthy(system_instruction)
           THEN [systemInstruction |-> [parts |-> <<[text |-> system_instruction]>>]]
           ELSE <<>>)
       @@ (IF gemini_tools # NoTools THEN [tools |-> gemini_tools] ELSE <<>>)

\* a request body, beside the msgs and tools it was built from
Request(msgs, tools) ==
    [built |-> TRUE, messages |-> msgs,
     body |-> BuildRequestBody(msgs, tools)]

NoRequest == [built |-> FALSE]

----------------------------------------------------------------------------
(* agents/tool_agent.py: the graph built by create_tool_agent *)

\* the provider's responses: a text and up to MaxBatch invocations, each
\* with a fresh id (GeminiProvider draws a uuid4 per functionCall part)
RECURSIVE NameSeqs(_)
NameSeqs(n) ==
    IF n = 0 THEN {<<>>}
    ELSE NameSeqs(n - 1) \cup
         {Append(q, t) : q \in {x \in NameSeqs(n - 1) : Len(x) = n - 1}, t \in ToolNames}

ToolCalls(names, first_id) ==
    [k \in 1..Len(names) |->
        [id |-> first_id + k - 1, name |-> names[k], arguments |-> Arguments]]

LLMResponse(content, tool_calls) == [content |-> content, tool_calls |-> tool_calls]

has_tool_calls(response) == Len(response.tool_calls) > 0

SystemMessage == [role |-> "system", content |-> <<"final_system_prompt">>]

\* call_llm: the message list handed to llm_provider.generate
LlmInput_Always(msgs) == <<SystemMessage>> \o msgs

LlmInput(msgs) ==
    IF msgs = <<>> \/ Get(msgs[1], "role", "") # "system"
    THEN <<SystemMessage>> \o msgs
    ELSE msgs

ThinkingEvent(type, content, metadata) ==
    [type |-> type, content |-> content, metadata |-> metadata]

\* call_llm: the assistant message built from the response
AssistantMessage(response) ==
    IF has_tool_calls(response)
    THEN [role |-> "assistant", content |-> response.content,
          tool_calls |-> response.tool_calls]
    ELSE [role |-> "assistant", content |-> response.content]

\* the literal pieces of the tool_call event's f-string, each kept whole
CallPrefix == <<"Calling tool with arguments: json">>

CallSuffix == <<"end json">>

\* call_llm: the events emitted for the response
LlmEvents(response) ==
    IF has_tool_calls(response)
    THEN [k \in 1..Len(response.tool_calls) |->
            ThinkingEvent("tool_call",
                CallPrefix \o response.tool_calls[k].arguments \o CallSuffix,
                [tool_name |-> response.tool_calls[k].name,
                 arguments |-> response.tool_calls[k].arguments])]
    ELSE IF Truthy(response.content)
         THEN <<ThinkingEvent("reasoning", response.content, EmptyDict)>>
         ELSE <<>>

\* should_continue, on the state the llm node leaves
should_continue_OffByOne(msgs, made, max) ==
    LET last_message == msgs[Len(msgs)] IN
    IF made > max THEN "end"
    ELSE IF Get(last_message, "tool_calls", <<>>) # <<>> THEN "tools"
    ELSE "end"

should_continue(msgs, made, max) ==
    LET last_message == msgs[Len(msgs)] IN
    IF made >= max THEN "end"
    ELSE IF Get(last_message, "tool_calls", <<>>) # <<>> THEN "tools"
    ELSE "end"

\* str(result.content): the text, or the repr of the raw content list
\* (each item rendered by its type only)
RECURSIVE ReprItems(_)
ReprItems(raw) ==
    IF raw = <<>> THEN <<>>
    ELSE <<"{", Get(Head(raw), "type", "")>> \o <<"}">> \o ReprItems(Tail(raw))

PyStr(result) ==
    IF result.is_text THEN result.text ELSE <<"[">> \o ReprItems(result.raw) \o <<"]">>

ErrorPrefix == <<"E", "r", "r", "o", "r", ":", " ">>

\* display length of a tool_result event
DisplayLimit == 500

\* execute_tools: the content of the tool message for one result
ResultContent_NoPrefix(result) == PyStr(result)

ResultContent(result) ==
    IF result.is_error THEN ErrorPrefix \o PyStr(result) ELSE PyStr(result)

\* execute_tools: the event emitted for one result
ResultEvent_CutsAtLimit(result, tool_name) ==
    LET result_content == ResultContent(result) IN
    IF result.is_error
    THEN ThinkingEvent("error", result_content, [tool_name |-> tool_name])
    ELSE ThinkingEvent("tool_result",
            IF Len(result_content) >= DisplayLimit
            THEN SubSeq(result_content, 1, DisplayLimit) \o <<"...">>
            ELSE result_content,
            [tool_name |-> tool_name])

ResultEvent(result, tool_name) ==
    LET result_content == ResultContent(result) IN
    IF result.is_error
    THEN ThinkingEvent("error", result_content, [tool_name |-> tool_name])
    ELSE ThinkingEvent("tool_result",
            IF Len(result_content) > DisplayLimit
            THEN SubSeq(result_content, 1, DisplayLimit) \o <<"...">>
            ELSE result_content,
            [tool_name |-> tool_name])

ToolMessage_NextId(tc, result) ==
    [role |-> "tool", name |-> tc.name, content |-> ResultContent(result),
     tool_call_id |-> tc.id + 1]

ToolMessage(tc, result) ==
    [role |-> "tool", name |-> tc.name, content |-> ResultContent(result),
     tool_call_id |-> tc.id]

\* finalize: the answer, and the event emitted for it
FinalAnswer(msgs) == Get(msgs[Len(msgs)], "content", <<>>)

FinalEvents_AsReasoning(msgs) ==
    IF Truthy(FinalAnswer(msgs))
    THEN <<ThinkingEvent("reasoning", FinalAnswer(msgs), EmptyDict)>>
    ELSE <<>>

FinalEvents(msgs) ==
    IF Truthy(FinalAnswer(msgs))
    THEN <<ThinkingEvent("final_answer", FinalAnswer(msgs), EmptyDict)>>
    ELSE <<>>

\* emit_thinking: the callback, when there is one, is handed each event
NoCallback == "None"

Observer == "ThinkingCallback"

on_thinking_LatestFirst(received, events) ==
    IF thinking_callback # NoCallback THEN events \o received ELSE received

on_thinking(received, events) ==
    IF thinking_callback # NoCallback THEN received \o events ELSE received

----------------------------------------------------------------------------
(* The run of the graph: ainvoke on run_agent's initial state *)

AgentInitOn(msgs) ==
    /\ messages = msgs
    /\ thinking_events = <<>>
    /\ tool_calls_made = 0
    /\ final_answer = None
    /\ max_tool_calls \in 0..MaxBudget
    /\ pc = "llm"
    /\ tc_index = 0
    /\ new_messages = <<>>
    /\ tool_count = 0
    /\ next_id = 0
    /\ llm_inputs = <<>>
    /\ tool_log = <<>>
    /\ last_reply = NoReply
    /\ provider_calls = <<>>
    /\ direct_call = NoDirectCall
    /\ request = NoRequest
    /\ converted = NotConverted
    /\ delivered = <<>>
    /\ raised_by = "none"

AgentInit == AgentInitOn(<<[role |-> "user", content |-> <<"2", "+", "2", "?">>]>>)

\* the llm node, then the conditional edge should_continue; entering the
\* tools node sets execute_tools' locals
CallLlm(content, names, tok) ==
    /\ pc = "llm"
    /\ ~tok.raised
    /\ provider_calls' = GeminiCalls("generate", tok)
    /\ request' = Request(LlmInput(messages), AgentTools(discovered))
    /\ LET response == LLMResponse(content, ToolCalls(names, next_id + 1))
           msgs == messages \o <<AssistantMessage(response)>>
           route == should_continue(msgs, tool_calls_made, max_tool_calls)
       IN /\ llm_inputs' = Append(llm_inputs, LlmInput(messages))
          /\ messages' = msgs
          /\ thinking_events' = thinking_events \o LlmEvents(response)
          /\ delivered' = on_thinking(delivered, LlmEvents(response))
          /\ next_id' = next_id + Len(names)
          /\ pc' = IF route = "tools" THEN "tools" ELSE "finalize"
          /\ tc_index' = IF route = "tools" THEN 1 ELSE 0
          /\ new_messages' = <<>>
          /\ tool_count' = IF route = "tools" THEN tool_calls_made ELSE 0
          /\ last_reply' = NoReply
    /\ UNCHANGED <<tool_calls_made, final_answer, max_tool_calls, tool_log, direct_call,
                   discovered, converted, thinking_callback, raised_by>>
    /\ UNCHANGED <<token_vars, mcp_vars, chat_vars>>

\* the llm node when llm_provider.generate raises: the token call raised,
\* or the LLM request did
CallLlmRaises(tok) ==
    /\ pc = "llm"
    /\ provider_calls' = GeminiCalls("generate", tok)
    /\ request' = IF tok.raised THEN request
                  ELSE Request(LlmInput(messages), AgentTools(discovered))
    /\ llm_inputs' = Append(llm_inputs, LlmInput(messages))
    /\ pc' = "raised"
    /\ raised_by' = "llm"
    /\ last_reply' = NoReply
    /\ UNCHANGED <<messages, thinking_events, tool_calls_made, final_answer,
                   max_tool_calls, tc_index, new_messages, tool_count, next_id,
                   tool_log, direct_call, discovered, converted, thinking_callback,
                   delivered>>
    /\ UNCHANGED <<token_vars, mcp_vars, chat_vars>>

\* execute_tools: the invocation the for loop is at
CurrentInvocation_Reversed(tool_calls, index) == tool_calls[Len(tool_calls) - index + 1]

CurrentInvocation(tool_calls, index) == tool_calls[index]

\* execute_tools left by an exception of call_tool: the node returns no
\* update, its local new_messages is dropped
AfterRaise_KeepsBatch(msgs, batch) == msgs \o batch

AfterRaise(msgs, batch) == msgs

\* the tools node: one pass of execute_tools' for loop, on the server's
\* reply to its tools/call request; after the last invocation the node
\* returns and the edge tools -> llm is taken
ExecuteTool(reply) ==
    /\ pc = "tools"
    /\ LET tool_calls == Get(messages[Len(messages)], "tool_calls", <<>>)
           tc == CurrentInvocation(tool_calls, tc_index)
           out == call_tool(reply)
           msgs == Append(new_messages, ToolMessage(tc, out.value))
       IN /\ last_reply' = reply
          /\ tool_log' = Append(tool_log,
                [id |-> tc.id, name |-> tc.name, reply |-> ReplyKind(reply),
                 raised |-> out.raised])
          /\ IF out.raised
             THEN /\ pc' = "raised"
                  /\ raised_by' = "tool"
                  /\ messages' = AfterRaise(messages, new_messages)
                  /\ UNCHANGED <<thinking_events, delivered, tool_calls_made,
                                 tc_index, new_messages, tool_count>>
             ELSE /\ thinking_events' =
                        Append(thinking_events, ResultEvent(out.value, tc.name))
                  /\ delivered' =
                        on_thinking(delivered, <<ResultEvent(out.value, tc.name)>>)
                  /\ UNCHANGED raised_by
                  /\ IF tc_index = Len(tool_calls)
                     THEN /\ messages' = messages \o msgs
                          /\ tool_calls_made' = tool_count + 1
                          /\ pc' = "llm"
                          /\ tc_index' = 0
                          /\ new_messages' = <<>>
                          /\ tool_count' = 0
                     ELSE /\ tc_index' = tc_index + 1
                          /\ new_messages' = msgs
                          /\ tool_count' = tool_count + 1
                          /\ UNCHANGED <<messages, tool_calls_made, pc>>
    /\ UNCHANGED <<final_answer, max_tool_calls, next_id, llm_inputs, provider_calls,
                   direct_call, discovered, request, converted, thinking_callback>>
    /\ UNCHANGED <<token_vars, mcp_vars, chat_vars>>

\* the finalize node, then END
Finalize ==
    /\ pc = "finalize"
    /\ final_answer' = FinalAnswer(messages)
    /\ thinking_events' = thinking_events \o FinalEvents(messages)
    /\ delivered' = on_thinking(delivered, FinalEvents(messages))
    /\ pc' = "END"
    /\ last_reply' = NoReply
    /\ UNCHANGED <<messages, tool_calls_made, max_tool_calls, tc_index,
                   new_messages, tool_count, next_id, llm_inputs, tool_log,
                   provider_calls, direct_call, discovered, request, converted,
                   thinking_callback, raised_by>>
    /\ UNCHANGED <<token_vars, mcp_vars, chat_vars>>

Next ==
    \/ \E content \in LlmTexts, names \in NameSeqs(MaxBatch), tok \in TokenOutcomes :
            CallLlm(content, names, tok)
    \/ \E tok \in TokenOutcomes : CallLlmRaises(tok)
    \/ \E reply \in ToolReplies : ExecuteTool(reply)
    \/ Finalize

\* a GeminiProvider method called directly, before the graph is run; the
\* call raises when the token call raises or the request fails
DirectCall(method, tok, request_ok) ==
    /\ llm_inputs = <<>>
    /\ direct_call' = [method |-> method, calls |-> GeminiCalls(method, tok),
                       raised |-> (tok.raised \/ ~request_ok)]
    /\ UNCHANGED <<messages, thinking_events, tool_calls_made, final_answer,
                   max_tool_calls, pc, tc_index, new_messages, tool_count, next_id,
                   llm_inputs, tool_log, last_reply, provider_calls, discovered,
                   request, converted, thinking_callback, delivered, raised_by>>
    /\ UNCHANGED <<token_vars, mcp_vars, chat_vars>>

ProviderNext ==
    \/ Next
    \/ \E method \in Methods, tok \in TokenOutcomes, request_ok \in BOOLEAN :
            DirectCall(method, tok, request_ok)

\* convert_mcp_tools_to_gemini called on the client's tools, before the
\* graph is run
ConvertTools ==
    /\ llm_inputs = <<>>
    /\ converted = NotConverted
    /\ converted' = [called |-> TRUE, before |-> discovered,
                     declarations |-> convert_mcp_tools_to_gemini(discovered).declarations]
    /\ discovered' = convert_mcp_tools_to_gemini(discovered).tools
    /\ UNCHANGED <<messages, thinking_events, tool_calls_made, final_answer,
                   max_tool_calls, pc, tc_index, new_messages, tool_count, next_id,
                   llm_inputs, tool_log, last_reply, provider_calls, direct_call,
                   request, thinking_callback, delivered, raised_by>>
    /\ UNCHANGED <<token_vars, mcp_vars, chat_vars>>

\* message lists handed to GeminiProvider by other callers than the graph
SystemA == [role |-> "system", content |-> <<"A">>]

SystemB == [role |-> "system", content |-> <<"B">>]

SystemEmpty == [role |-> "system", content |-> <<>>]

UserTurn == [role |-> "user", content |-> <<"h", "i">>]

AssistantCalls ==
    [role |-> "assistant", content |-> <<"o", "k">>,
     tool_calls |-> <<[id |-> 1, name |-> "add", arguments |-> Arguments],
                      [id |-> 2, name |-> "multiply", arguments |-> Arguments]>>]

AssistantSilentCall ==
    [role |-> "assistant", content |-> None,
     tool_calls |-> <<[id |-> 3, name |-> "multiply", arguments |-> Arguments]>>]

AssistantText == [role |-> "assistant", content |-> <<"4">>]

AssistantEmpty == [role |-> "assistant", content |-> <<>>]

ToolNamed ==
    [role |-> "tool", name |-> "add", content |-> <<"5">>, tool_call_id |-> 1]

ToolUnnamed == [role |-> "tool", content |-> <<"6">>, tool_call_id |-> 2]

MessageLists ==
    {<<>>,
     <<UserTurn>>,
     <<SystemA, UserTurn, AssistantText>>,
     <<UserTurn, SystemA, UserTurn>>,
     <<SystemA, UserTurn, SystemEmpty>>,
     <<SystemA, UserTurn, SystemB, AssistantCalls, ToolNamed, ToolUnnamed,
       AssistantSilentCall, ToolNamed, AssistantEmpty, AssistantText>>}

\* GeminiProvider._build_request_body on a message list, before the graph
\* is run
BuildBody(msgs) ==
    /\ llm_inputs = <<>>
    /\ ~request.built
    /\ request' = Request(msgs, AgentTools(discovered))
    /\ UNCHANGED <<messages, thinking_events, tool_calls_made, final_answer,
                   max_tool_calls, pc, tc_index, new_messages, tool_count, next_id,
                   llm_inputs, tool_log, last_reply, provider_calls, direct_call,
                   discovered, converted, thinking_callback, delivered, raised_by>>
    /\ UNCHANGED <<token_vars, mcp_vars, chat_vars>>

ToolsNext ==
    \/ Next
    \/ ConvertTools
    \/ \E msgs \in MessageLists : BuildBody(msgs)

\* emit_thinking when thinking_callback.on_thinking raises: the event is
\* already appended to the state's list, and the exception leaves the node
\* that emitted it, which returns no update
\* the llm node: generate returned, the k-th event of the response raised
ObserverRaisesInLlm(content, names, tok, k) ==
    /\ pc = "llm"
    /\ thinking_callback # NoCallback
    /\ ~tok.raised
    /\ provider_calls' = GeminiCalls("generate", tok)
    /\ request' = Request(LlmInput(messages), AgentTools(discovered))
    /\ LET response == LLMResponse(content, ToolCalls(names, next_id + 1))
           emitted == SubSeq(LlmEvents(response), 1, k)
       IN /\ k \in 1..Len(LlmEvents(response))
          /\ llm_inputs' = Append(llm_inputs, LlmInput(messages))
          /\ thinking_events' = thinking_events \o emitted
          /\ delivered' = on_thinking(delivered, emitted)
          /\ next_id' = next_id + Len(names)
    /\ pc' = "raised"
    /\ raised_by' = "observer"
    /\ last_reply' = NoReply
    /\ UNCHANGED <<messages, tool_calls_made, final_answer, max_tool_calls, tc_index,
                   new_messages, tool_count, tool_log, direct_call, discovered,
                   converted, thinking_callback>>
    /\ UNCHANGED <<token_vars, mcp_vars, chat_vars>>

\* the tools node: call_tool returned, the event of its result raised
ObserverRaisesInTools(reply) ==
    /\ pc = "tools"
    /\ thinking_callback # NoCallback
    /\ LET tool_calls == Get(messages[Len(messages)], "tool_calls", <<>>)
           tc == CurrentInvocation(tool_calls, tc_index)
           out == call_tool(reply)
       IN /\ ~out.raised
          /\ last_reply' = reply
          /\ tool_log' = Append(tool_log,
                [id |-> tc.id, name |-> tc.name, reply |-> ReplyKind(reply),
                 raised |-> FALSE])
          /\ thinking_events' =
                Append(thinking_events, ResultEvent(out.value, tc.name))
          /\ delivered' = on_thinking(delivered, <<ResultEvent(out.value, tc.name)>>)
    /\ messages' = AfterRaise(messages, new_messages)
    /\ pc' = "raised"
    /\ raised_by' = "observer"
    /\ UNCHANGED <<tool_calls_made, final_answer, max_tool_calls, tc_index,
                   new_messages, tool_count, next_id, llm_inputs, provider_calls,
                   direct_call, discovered, request, converted, thinking_callback>>
    /\ UNCHANGED <<token_vars, mcp_vars, chat_vars>>

\* the finalize node: the final_answer event raised
ObserverRaisesInFinalize ==
    /\ pc = "finalize"
    /\ thinking_callback # NoCallback
    /\ FinalEvents(messages) # <<>>
    /\ thinking_events' = thinking_events \o FinalEvents(messages)
    /\ delivered' = on_thinking(delivered, FinalEvents(messages))
    /\ pc' = "raised"
    /\ raised_by' = "observer"
    /\ last_reply' = NoReply
    /\ UNCHANGED <<messages, tool_calls_made, final_answer, max_tool_calls, tc_index,
                   new_messages, tool_count, next_id, llm_inputs, tool_log,
                   provider_calls, direct_call, discovered, request, converted,
                   thinking_callback>>
    /\ UNCHANGED <<token_vars, mcp_vars, chat_vars>>

----------------------------------------------------------------------------
(* SafeChainOrchestrator.run: the loop over MCPToolAgent.ainvoke *)

SafeChainPrompt == [role |-> "system", content |-> <<"SYSTEM_PROMPT">>]

Digit(n) == <<"0", "1", "2", "3", "4", "5", "6", "7", "8", "9">>[n + 1]

\* run: the system message is put first unless the first message has role
\* system
WithSystemPrompt_Always(msgs) == <<SafeChainPrompt>> \o msgs

WithSystemPrompt(msgs) ==
    IF msgs = <<>> \/ Get(msgs[1], "role", "") # "system"
    THEN <<SafeChainPrompt>> \o msgs
    ELSE msgs

\* _to_langchain_messages: one message object per message of a known role,
\* in order; a message of another role is left out
LangchainMessage(msg) ==
    LET role == Get(msg, "role", "")
        content == Get(msg, "content", <<>>)
    IN IF role = "system" THEN <<[class |-> "SystemMessage", content |-> content]>>
       ELSE IF role = "user" THEN <<[class |-> "HumanMessage", content |-> content]>>
       ELSE IF role = "assistant" THEN <<[class |-> "AIMessage", content |-> content]>>
       ELSE IF role = "tool"
            THEN <<[class |-> "ToolMessage", content |-> content,
                    tool_call_id |-> Get(msg, "tool_call_id", <<>>),
                    name |-> Get(msg, "name", <<>>)]>>
       ELSE <<>>

RECURSIVE _to_langchain_messages(_)
_to_langchain_messages(msgs) ==
    IF msgs = <<>> THEN <<>>
    ELSE LangchainMessage(Head(msgs)) \o _to_langchain_messages(Tail(msgs))

\* what MCPToolAgent.ainvoke gives back: it raises, it returns the model's
\* message when no tool was requested, or a dict of the content and the
\* results of the tools that were run
ToolRan == [tool |-> "multiply", result |-> <<"5", "6">>]

ToolBroke == [tool |-> "multiply", error |-> <<"b", "o", "o", "m">>]

AgentRaised == [kind |-> "raised", error |-> <<"t", "i", "m", "e", "o", "u", "t">>]

AIMessage(content) == [kind |-> "AIMessage", content |-> content]

AgentDict(content, tool_results) ==
    [kind |-> "dict", content |-> content, tool_results |-> tool_results]

\* MCPToolAgent's self.tools, by name
SafeChainTools == {"multiply"}

\* a tool call of the model's response: a tool of the agent with arguments
\* it accepts, the same tool with arguments on which it raises, and a name
\* that is not among the agent's tools
GoodCall == [name |-> "multiply", args |-> "good"]

BadCall == [name |-> "multiply", args |-> "bad"]

UnknownCall == [name |-> "search", args |-> "good"]

ModelResponse(content, tool_calls) == [content |-> content, tool_calls |-> tool_calls]

\* what llm.ainvoke gives the agent
ModelResponses ==
    {ModelResponse(c, <<>>) : c \in {<<>>, <<"4">>}}
    \cup {ModelResponse(c, t) : c \in {<<>>, <<"o", "k">>},
                                t \in {<<UnknownCall>>, <<GoodCall>>, <<BadCall>>,
                                       <<GoodCall, BadCall>>, <<GoodCall, UnknownCall>>}}

\* self.tools[tool_name].ainvoke(tool_args)
ToolOutcome(tool_call) ==
    IF tool_call.args = "bad" THEN Raised(ToolBroke.error) ELSE Returned(ToolRan.result)

\* ainvoke's loop over response.tool_calls: a result or an error for a tool
\* of the agent, nothing for another name
RECURSIVE ToolResults(_)
ToolResults(tool_calls) ==
    IF tool_calls = <<>> THEN <<>>
    ELSE LET tool_call == Head(tool_calls)
             outcome == ToolOutcome(tool_call)
         IN (IF tool_call.name \in SafeChainTools
             THEN IF outcome.raised
                  THEN <<[tool |-> tool_call.name, error |-> outcome.error]>>
                  ELSE <<[tool |-> tool_call.name, result |-> outcome.value]>>
             ELSE <<>>)
            \o ToolResults(Tail(tool_calls))

\* MCPToolAgent.ainvoke, on the response of the model
MCPToolAgent_ainvoke(response) ==
    IF response.tool_calls = <<>>
    THEN AIMessage(response.content)
    ELSE AgentDict(response.content, ToolResults(response.tool_calls))

AgentResults ==
    {AgentRaised} \cup {MCPToolAgent_ainvoke(response) : response \in ModelResponses}

\* run: the events of one tool result, the first one only handed to _emit
SafeChainCallEvent(tool_result) ==
    ThinkingEvent("tool_call", <<"Executing: ">> \o <<tool_result.tool>>,
                  [tool_name |-> tool_result.tool])

SafeChainToolContent(tool_result) ==
    IF "error" \in DOMAIN tool_result
    THEN <<"Error: ">> \o tool_result.error
    ELSE tool_result.result

SafeChainResultEvent(tool_result) ==
    IF "error" \in DOMAIN tool_result
    THEN ThinkingEvent("error", <<"Error: ">> \o tool_result.error,
                       [tool_name |-> tool_result.tool])
    ELSE ThinkingEvent("tool_result",
            IF Len(tool_result.result) > DisplayLimit
            THEN SubSeq(tool_result.result, 1, DisplayLimit) \o <<"...">>
            ELSE tool_result.result,
            [tool_name |-> tool_result.tool])

SafeChainToolMessage(tool_result, iteration) ==
    [role |-> "tool", name |-> tool_result.tool,
     content |-> SafeChainToolContent(tool_result),
     tool_call_id |-> <<"call_", Digit(iteration), "_", tool_result.tool>>]

RECURSIVE SafeChainEmitted(_)
SafeChainEmitted(tool_results) ==
    IF tool_results = <<>> THEN <<>>
    ELSE <<SafeChainCallEvent(Head(tool_results)),
           SafeChainResultEvent(Head(tool_results))>>
         \o SafeChainEmitted(Tail(tool_results))

SafeChainIdle ==
    [pc |-> "idle", messages |-> <<>>, iteration |-> 0, max_iterations |-> 0,
     agent_inputs |-> <<>>, thinking_events |-> <<>>, emitted |-> <<>>,
     supplied |-> <<>>, bound |-> FALSE, content |-> <<>>,
     outcome |-> [raised |-> FALSE, value |-> <<>>]]

\* ChatSession.__init__
NewSession ==
    [conversation_history |-> <<>>, last |-> "none", supplied |-> <<>>, cut |-> FALSE]

ChatInit == safechain = SafeChainIdle /\ session = NewSession

\* run is called: the system prompt is put in place
SafeChainRun(msgs, max) ==
    /\ safechain.pc = "idle"
    /\ safechain' = [safechain EXCEPT !.pc = "loop",
                                      !.supplied = msgs,
                                      !.messages = WithSystemPrompt(msgs),
                                      !.max_iterations = max]
    /\ UNCHANGED <<agent_vars, token_vars, mcp_vars, session>>

\* one pass of the while loop, on what self.agent.ainvoke gives back
SafeChainIterate(result) ==
    /\ safechain.pc = "loop"
    /\ safechain.iteration < safechain.max_iterations
    /\ LET iteration == safechain.iteration + 1
           agent_input == _to_langchain_messages(safechain.messages)
           content == Get(result, "content", <<>>)
           tool_results == IF result.kind = "dict" THEN result.tool_results ELSE <<>>
           sent == [safechain EXCEPT !.iteration = iteration,
                                     !.agent_inputs = Append(@, agent_input)]
       IN IF result.kind = "raised"
          THEN LET error_event ==
                       ThinkingEvent("error", <<"Agent error: ">> \o result.error, EmptyDict)
               IN safechain' =
                    [sent EXCEPT !.pc = "returned",
                                 !.emitted = Append(@, error_event),
                                 !.thinking_events = Append(@, error_event),
                                 !.outcome = Returned(<<"I encountered an error: ">>
                                                      \o result.error)]
          ELSE IF tool_results # <<>>
          THEN safechain' =
                 [sent EXCEPT !.pc = "loop",
                              !.bound = TRUE,
                              !.content = content,
                              !.emitted =
                                  @ \o SafeChainEmitted(tool_results)
                                    \o (IF content # <<>>
                                        THEN <<ThinkingEvent("reasoning", content, EmptyDict)>>
                                        ELSE <<>>),
                              !.thinking_events =
                                  @ \o [k \in 1..Len(tool_results) |->
                                            SafeChainResultEvent(tool_results[k])],
                              !.messages =
                                  @ \o (IF content # <<>>
                                        THEN <<[role |-> "assistant", content |-> content]>>
                                        ELSE <<>>)
                                    \o [k \in 1..Len(tool_results) |->
                                            SafeChainToolMessage(tool_results[k], iteration)]]
          ELSE LET final == ThinkingEvent("final_answer", content, EmptyDict)
               IN safechain' =
                    [sent EXCEPT !.pc = "returned",
                                 !.bound = TRUE,
                                 !.content = content,
                                 !.emitted = IF content # <<>> THEN Append(@, final) ELSE @,
                                 !.thinking_events =
                                     IF content # <<>> THEN Append(@, final) ELSE @,
                                 !.outcome = Returned(content)]
    /\ UNCHANGED <<agent_vars, token_vars, mcp_vars, session>>

\* the while condition fails: the return after the loop, which reads the
\* local content; the name is unbound when no pass of the loop has run
SafeChainExhausted ==
    /\ safechain.pc = "loop"
    /\ safechain.iteration >= safechain.max_iterations
    /\ safechain' =
         [safechain EXCEPT !.pc = "returned",
                           !.outcome =
                               IF safechain.bound
                               THEN Returned(<<"Reached maximum iterations (",
                                               Digit(safechain.max_iterations),
                                               "). Last response: ">>
                                             \o safechain.content)
                               ELSE Raised("UnboundLocalError")]
    /\ UNCHANGED <<agent_vars, token_vars, mcp_vars, session>>

----------------------------------------------------------------------------
(* ChatSession of examples/chat.py: the history kept between turns *)

\* the number of messages kept
HistoryLimit == 20

UserInputs == {<<"h", "i">>}

\* what agent.ainvoke gives chat: it raises, or returns the final state,
\* whose final_answer is a text or None
RunOutcomes == {Raised("run")} \cup {Returned([final_answer |-> a]) : a \in {None, <<"4">>}}

\* chat: the last HistoryLimit messages are kept
Kept_OneLess(history) ==
    IF Len(history) > HistoryLimit
    THEN SubSeq(history, Len(history) - HistoryLimit + 2, Len(history))
    ELSE history

Kept(history) ==
    IF Len(history) > HistoryLimit
    THEN SubSeq(history, Len(history) - HistoryLimit + 1, Len(history))
    ELSE history

\* ChatSession.chat, on what the run of the agent gives
Chat(user_input, outcome) ==
    /\ LET msgs == session.conversation_history
                      \o <<[role |-> "user", content |-> user_input]>>
           grown == session.conversation_history
                      \o <<[role |-> "user", content |-> user_input],
                           [role |-> "assistant",
                            content |-> Get(outcome.value, "final_answer",
                                            <<"I couldn't generate a response.">>)]>>
       IN session' =
            IF outcome.raised
            THEN [session EXCEPT !.last = "failed", !.supplied = msgs, !.cut = FALSE]
            ELSE [conversation_history |-> Kept(grown), last |-> "turn",
                  supplied |-> msgs, cut |-> Len(grown) > HistoryLimit]
    /\ UNCHANGED <<agent_vars, token_vars, mcp_vars, safechain>>

\* ChatSession.clear_history
ClearHistory ==
    /\ session' = [session EXCEPT !.conversation_history = <<>>, !.last = "clear",
                                  !.cut = FALSE]
    /\ UNCHANGED <<agent_vars, token_vars, mcp_vars, safechain>>

SessionNext ==
    \/ \E user_input \in UserInputs, outcome \in RunOutcomes : Chat(user_input, outcome)
    \/ ClearHistory

\* the conversations a caller supplies: a first turn, a history of earlier
\* turns with the new one, with and without a system message of its own
Conversations ==
    {<<>>,
     <<UserTurn>>,
     <<UserTurn, AssistantText, UserTurn>>,
     <<SystemA, UserTurn>>,
     <<UserTurn, SystemB, UserTurn>>}

\* a conversation is handed either to the graph or to the orchestrator
GraphStep ==
    /\ safechain.pc = "idle"
    /\ Next

OrchestratorRun(max) ==
    /\ llm_inputs = <<>>
    /\ SafeChainRun(messages, max)

ChatNext ==
    \/ GraphStep
    \/ \E max \in 0..MaxIterations : OrchestratorRun(max)
    \/ \E result \in AgentResults : SafeChainIterate(result)
    \/ SafeChainExhausted

\* tool results whose text is short, as long as the display limit, and
\* one character longer
EdgeText == [i \in 1..DisplayLimit |-> "x"]

LongText == [i \in 1..(DisplayLimit + 1) |-> "x"]

DisplayTexts == {<<"5", "6">>, EdgeText, LongText}

TextResult(text, is_error) ==
    [content |-> <<[type |-> "text", text |-> text]>>, isError |-> is_error]

DisplayReplies ==
    [framing : {"application/json"},
     body : {<<RpcResult(TextResult(t, FALSE))>> : t \in DisplayTexts}
            \cup {<<RpcResult(TextResult(LongText, TRUE))>>}]

DisplayAgentResults ==
    {AIMessage(<<"4">>)}
    \cup {AgentDict(<<>>, <<[tool |-> "multiply", result |-> t]>>) : t \in DisplayTexts}
    \cup {AgentDict(<<>>, <<[tool |-> "multiply", error |-> LongText]>>)}

\* the graph and the orchestrator on these results
GraphDisplayStep ==
    /\ safechain.pc = "idle"
    /\ \/ \E content \in LlmTexts, names \in NameSeqs(MaxBatch) :
              CallLlm(content, names, Returned(<<"T">>))
       \/ \E reply \in DisplayReplies : ExecuteTool(reply)
       \/ Finalize

DisplayNext ==
    \/ GraphDisplayStep
    \/ \E max \in 0..MaxIterations : OrchestratorRun(max)
    \/ \E result \in DisplayAgentResults : SafeChainIterate(result)
    \/ SafeChainExhausted

ObserverNext ==
    \/ Next
    \/ \E content \in LlmTexts, names \in NameSeqs(MaxBatch), tok \in TokenOutcomes,
          k \in 1..MaxBatch :
            ObserverRaisesInLlm(content, names, tok, k)
    \/ \E reply \in ToolReplies : ObserverRaisesInTools(reply)
    \/ ObserverRaisesInFinalize

----------------------------------------------------------------------------
(* auth/idaas.py: one IdaaSClient, used by threads (get_token_sync,         *)
(* clear_token) and by tasks of one event loop (get_token)                 *)

\* self._refresh_buffer
RefreshBuffer == 10

\* a free lock
Nobody == 0

\* self._async_lock before _async_lock_instance has created it
NotCreated == -1

Callers == 1..NumCallers

\* self._token = None
NoToken == [none |-> TRUE]

TokenInfo(access_token, token_type, expires_at, scope) ==
    [access_token |-> access_token, token_type |-> token_type,
     expires_at |-> expires_at, scope |-> scope]

\* The config argument is any object; IdaaSClient reads config.scope and
\* config.token_refresh_interval.  SettingsConfig is config/settings.py's
\* IdaaSConfig, which declares neither; DeclaringConfig is a configuration
\* object that declares both.
SettingsConfig == [id |-> "app", token_refresh_time |-> 60]

DeclaringConfig ==
    [id |-> "app", scope |-> <<"scope.config">>, token_refresh_interval |-> 11]

Configs == {SettingsConfig, DeclaringConfig}

\* the scope argument of get_token / get_token_sync
Scopes == {None, <<"scope.llm">>}

Paths == {"sync", "async"}

\* a caller outside any call; alone: no other call was in progress during
\* this one; after_clear: the call began right after a clear_token;
\* sent: the number of the request it sent, 0 if none; mark: clear_mark if
\* the call is the first begun since a clear_token, else -1
Idle == [pc |-> "idle", path |-> "none", scope |-> None, alone |-> TRUE,
         after_clear |-> FALSE, sent |-> 0, mark |-> -1]

\* the identity endpoint's responses to request n: the token it issues is n
TokenResponses(n) ==
    {[status |-> 500, json |-> [token_type |-> "Bearer"]],
     [status |-> 200, json |-> [token_type |-> "Bearer"]],
     [status |-> 200, json |-> [token_type |-> "Bearer", access_token |-> n]],
     [status |-> 200, json |-> [token_type |-> "Bearer", access_token |-> n,
                                expires_in |-> 12]]}

_is_token_valid_Flipped(tok, t) ==
    /\ tok # NoToken
    /\ t > tok.expires_at - RefreshBuffer

_is_token_valid(tok, t) ==
    /\ tok # NoToken
    /\ t < tok.expires_at - RefreshBuffer

\* _build_request_body: reading config.scope raises AttributeError when the
\* configuration does not declare it
_build_request_body(cfg, scope) ==
    IF scope # None THEN Returned(IF scope # <<>> THEN [scope |-> scope] ELSE EmptyDict)
    ELSE IF "scope" \notin DOMAIN cfg THEN Raised("AttributeError")
    ELSE Returned(IF Truthy(cfg.scope) THEN [scope |-> cfg.scope] ELSE EmptyDict)

\* _parse_token_response: the default of dict.get is evaluated before the
\* lookup, so config.token_refresh_interval is read for every response
_parse_token_response_Lenient(cfg, response_data, t) ==
    IF "token_refresh_interval" \notin DOMAIN cfg THEN Raised("AttributeError")
    ELSE Returned(TokenInfo(Get(response_data, "access_token", -1),
                            Get(response_data, "token_type", "Bearer"),
                            t + Get(response_data, "expires_in", cfg.token_refresh_interval),
                            Get(response_data, "scope", None)))

_parse_token_response(cfg, response_data, t) ==
    IF "token_refresh_interval" \notin DOMAIN cfg THEN Raised("AttributeError")
    ELSE IF "access_token" \notin DOMAIN response_data THEN Raised("KeyError")
    ELSE Returned(TokenInfo(response_data.access_token,
                            Get(response_data, "token_type", "Bearer"),
                            t + Get(response_data, "expires_in", cfg.token_refresh_interval),
                            Get(response_data, "scope", None)))

\* whether a caller on this path may enter the critical section
LockFree_AsyncUnlocked(path) ==
    IF path = "sync" THEN lock = Nobody ELSE TRUE

LockFree(path) ==
    IF path = "sync" THEN lock = Nobody ELSE async_lock \in {NotCreated, Nobody}

NoStore == [token |-> NoToken, request |-> 0]

\* what the identity endpoint answered: a non-success status, a body
\* without access_token, or a body with one
ResponseKind(response) ==
    IF response.status # 200 THEN "status"
    ELSE IF "access_token" \notin DOMAIN response.json THEN "no_token"
    ELSE "ok"

\* a call that ended: value is the credential returned, 0 when it raised;
\* response, declared, lifetime and wrote are set by a call that ends on a
\* response: its kind, its expires_in (0 if none), the lifetime left to the
\* token stored, and whether self._token was assigned
Done(c, value) ==
    [path |-> call[c].path, alone |-> call[c].alone,
     after_clear |-> call[c].after_clear, sent |-> call[c].sent,
     mark |-> call[c].mark, raised |-> value = 0, value |-> value,
     response |-> "none", declared |-> 0, lifetime |-> 0, wrote |-> FALSE]

NoneDone ==
    [path |-> "none", alone |-> FALSE, after_clear |-> FALSE, sent |-> 0,
     mark |-> -1, raised |-> FALSE, value |-> 0,
     response |-> "none", declared |-> 0, lifetime |-> 0, wrote |-> FALSE]

TokenInit ==
    /\ config \in Configs
    /\ token = NoToken
    /\ lock = Nobody
    /\ async_lock = NotCreated
    /\ now = 0
    /\ call = [c \in Callers |-> Idle]
    /\ calls = 0
    /\ sends = 0
    /\ cleared = FALSE
    /\ clear_mark = 0
    /\ first_store = NoStore
    /\ returned = {}
    /\ paths_used = {}
    /\ started_valid = FALSE
    /\ failed = FALSE
    /\ overlap = FALSE
    /\ late_start = FALSE
    /\ last_op = "none"
    /\ last_done = NoneDone
    /\ fetched_for = EmptyDict

\* a thread calls get_token_sync(scope), or a task calls get_token(scope);
\* callers are interchangeable, the call goes to the first one that is free
StartCall(c, path, scope) ==
    /\ call[c].pc = "idle"
    /\ \A d \in Callers : d < c => call[d].pc # "idle"
    /\ calls < MaxCalls
    /\ LET others == \E d \in Callers \ {c} : call[d].pc # "idle" IN
       /\ call' = [d \in Callers |->
                    IF d = c
                    THEN [pc |-> "acquire", path |-> path, scope |-> scope,
                          alone |-> ~others,
                          after_clear |-> (last_op = "clear" /\ ~others), sent |-> 0,
                          mark |-> IF last_op = "clear" THEN clear_mark ELSE -1]
                    ELSE IF call[d].pc # "idle" THEN [call[d] EXCEPT !.alone = FALSE]
                    ELSE call[d]]
       /\ overlap' = (overlap \/ others)
    /\ late_start' = (late_start \/ calls > Cardinality({d \in Callers : call[d].pc # "idle"}))
    /\ last_done' = NoneDone
    /\ calls' = calls + 1
    /\ paths_used' = paths_used \cup {path}
    /\ started_valid' = (started_valid \/ _is_token_valid(token, now))
    /\ last_op' = "get"
    /\ UNCHANGED <<config, token, lock, async_lock, now, sends, cleared, clear_mark,
                   first_store, returned, failed, fetched_for>>
    /\ UNCHANGED <<agent_vars, mcp_vars, chat_vars>>

\* the caller gets the lock of its path and runs up to the request: it
\* returns the cached token, or raises building the body, or sends the
\* request and waits for the response holding the lock
Enter(c) ==
    /\ call[c].pc = "acquire"
    /\ LockFree(call[c].path)
    /\ LET body == _build_request_body(config, call[c].scope)
           valid == _is_token_valid(token, now)
           leaves == valid \/ body.raised
           holder == IF leaves THEN Nobody ELSE c
       IN /\ IF call[c].path = "sync"
             THEN lock' = holder /\ UNCHANGED async_lock
             ELSE async_lock' = holder /\ UNCHANGED lock
          /\ call' = [call EXCEPT ![c] =
                        IF leaves THEN Idle
                        ELSE [@ EXCEPT !.pc = "fetching", !.sent = sends + 1]]
          /\ sends' = IF leaves THEN sends ELSE sends + 1
          /\ returned' = IF valid THEN returned \cup {token.access_token} ELSE returned
          /\ failed' = (failed \/ (~valid /\ body.raised))
          /\ last_done' = IF valid THEN Done(c, token.access_token)
                          ELSE IF body.raised THEN Done(c, 0)
                          ELSE NoneDone
    /\ UNCHANGED <<config, token, now, calls, cleared, clear_mark, first_store,
                   paths_used, started_valid, overlap, late_start, last_op, fetched_for>>
    /\ UNCHANGED <<agent_vars, mcp_vars, chat_vars>>

\* the response arrives: raise_for_status, _parse_token_response, store,
\* return; the lock is released on every way out
Fetched(c, response) ==
    /\ call[c].pc = "fetching"
    /\ LET parsed == IF response.status # 200 THEN Raised("HTTPStatusError")
                     ELSE _parse_token_response(config, response.json, now)
       IN /\ token' = IF parsed.raised THEN token ELSE parsed.value
          /\ first_store' = IF ~parsed.raised /\ first_store = NoStore
                            THEN [token |-> parsed.value, request |-> call[c].sent]
                            ELSE first_store
          /\ returned' = IF parsed.raised THEN returned
                         ELSE returned \cup {parsed.value.access_token}
          /\ failed' = (failed \/ parsed.raised)
          /\ last_done' =
                [Done(c, IF parsed.raised THEN 0 ELSE parsed.value.access_token)
                    EXCEPT !.response = ResponseKind(response),
                           !.declared = Get(response.json, "expires_in", 0),
                           !.lifetime = IF token' = NoToken THEN 0
                                        ELSE token'.expires_at - now,
                           !.wrote = (token' # token)]
    /\ IF call[c].path = "sync"
       THEN lock' = Nobody /\ UNCHANGED async_lock
       ELSE async_lock' = Nobody /\ UNCHANGED lock
    /\ call' = [call EXCEPT ![c] = Idle]
    /\ UNCHANGED <<config, now, calls, sends, cleared, clear_mark, paths_used,
                   started_valid, overlap, late_start, last_op>>
    /\ UNCHANGED <<agent_vars, mcp_vars, chat_vars>>

FetchReply(c, response) ==
    /\ Fetched(c, response)
    /\ UNCHANGED fetched_for

\* the same step, with the body of the request kept beside the token it
\* fetched
FetchReplyFor(c, response) ==
    /\ Fetched(c, response)
    /\ fetched_for' = IF token' # token
                      THEN _build_request_body(config, call[c].scope).value
                      ELSE fetched_for

\* clear_token's assignment to self._token
clear_token(tok) == NoToken

\* a thread calls clear_token: it waits for self._lock
ClearToken ==
    /\ lock = Nobody
    /\ token' = clear_token(token)
    /\ cleared' = TRUE
    /\ clear_mark' = sends
    /\ last_op' = "clear"
    /\ last_done' = NoneDone
    /\ UNCHANGED <<config, lock, async_lock, now, call, calls, sends, first_store,
                   returned, paths_used, started_valid, failed, overlap, late_start,
                   fetched_for>>
    /\ UNCHANGED <<agent_vars, mcp_vars, chat_vars>>

\* a second passes
Tick ==
    /\ now < MaxTime
    /\ now' = now + 1
    /\ UNCHANGED <<config, token, lock, async_lock, call, calls, sends, cleared,
                   clear_mark, first_store, returned, paths_used, started_valid, failed,
                   overlap, late_start, last_op, fetched_for>>
    /\ last_done' = NoneDone
    /\ UNCHANGED <<agent_vars, mcp_vars, chat_vars>>

TokenNext ==
    \/ \E c \in Callers, path \in Paths, scope \in Scopes : StartCall(c, path, scope)
    \/ \E c \in Callers : Enter(c)
    \/ \E c \in Callers : \E response \in TokenResponses(call[c].sent) : FetchReply(c, response)
    \/ ClearToken
    \/ Tick

\* the calls of a client, with the body of the request that fetched the
\* cached token kept beside it
ScopeNext ==
    \/ \E c \in Callers, path \in Paths, scope \in Scopes : StartCall(c, path, scope)
    \/ \E c \in Callers : Enter(c)
    \/ \E c \in Callers : \E response \in TokenResponses(call[c].sent) :
            FetchReplyFor(c, response)
    \/ ClearToken
    \/ Tick

----------------------------------------------------------------------------
(* mcp/client.py: one MCPClient, its connect / call_tool / disconnect *)

\* self.config.url
Url == <<"url">>

\* str(uuid.uuid4())
SessionId == <<"uuid4">>

\* lines of an SSE body that are no data: line, or whose data is empty or
\* is no JSON: _parse_sse_response_async passes over them
EventLine == [line |-> "event: message"]

BlankLine == [line |-> ""]

\* message m as the server frames it: the body of a JSON response, or the
\* lines of an SSE response
Frame(framing, m) ==
    [status |-> 200, framing |-> framing,
     body |-> IF framing = "text/event-stream" THEN <<EventLine, m, BlankLine>>
              ELSE <<m>>]

\* a non-success HTTP status
HttpError == [status |-> 500, framing |-> "application/json", body |-> <<>>]

\* a 202 with no body, the answer to a notification
Accepted == [status |-> 202, framing |-> "application/json", body |-> <<>>]

ToolDescriptor ==
    [name |-> "multiply", description |-> <<"m">>, inputSchema |-> [type |-> "object"]]

\* the results of tools/list: a tool with every field and one with a name
\* only, an empty list, no list, a tool without a name
ListResults ==
    {[tools |-> <<ToolDescriptor, [name |-> "add"]>>], [tools |-> <<>>], EmptyDict,
     [tools |-> <<[description |-> <<"d">>]>>]}

\* parts of a tools/call content array
TextA == [type |-> "text", text |-> <<"5", "6">>]

TextB == [type |-> "text", text |-> <<"o", "k">>]

TextNoField == [type |-> "text"]

ImagePart == [type |-> "image", data |-> <<"A", "A">>]

ContentArrays ==
    {<<>>, <<TextA>>, <<TextA, TextB>>, <<TextB, ImagePart, TextA>>, <<ImagePart>>,
     <<TextNoField, TextA>>}

\* the results of tools/call
CallResults ==
    {[content |-> c] : c \in ContentArrays} \cup
    {[content |-> c, isError |-> e] : c \in ContentArrays, e \in BOOLEAN} \cup
    {EmptyDict}

\* the JSON-RPC results the server may give to a method
Results(method) ==
    IF method = "tools/list" THEN ListResults
    ELSE IF method = "tools/call" THEN CallResults
    ELSE {EmptyDict}

\* a response message with neither result nor error
RpcBare == [jsonrpc |-> "2.0"]

\* a body, or a data: line, that json cannot decode
Malformed == [line |-> "data: {not json"]

\* whether response.json() / json.loads decodes it
Decodes(m) == "line" \notin DOMAIN m

\* the server's replies to a request
McpReplies(method) ==
    {Frame(f, RpcResult(r)) : f \in Framings, r \in Results(method)} \cup
    {Frame(f, RpcError) : f \in Framings} \cup
    {Frame(f, RpcBare) : f \in Framings} \cup
    {Frame(f, Malformed) : f \in Framings} \cup
    {HttpError, Accepted}

\* _send_request: not connected, raise_for_status, response.json(), then
\* the JSON-RPC result or error
_send_request(endpoint, reply) ==
    IF endpoint = None THEN Raised("Not connected to MCP server")
    ELSE IF reply.status >= 400 THEN Raised("HTTPStatusError")
    ELSE IF /\ reply.framing # "text/event-stream"
            /\ \/ reply.body = <<>>
               \/ ~Decodes(reply.body[1])
         THEN Raised("JSONDecodeError")
    ELSE SendRequest(reply)

\* whether _send_request posts the request
Sends(endpoint) == endpoint # None

\* _list_tools: the MCPTool list built from a tools/list result
MCPTool(tool) ==
    [name |-> tool.name, description |-> Get(tool, "description", <<>>),
     input_schema |-> Get(tool, "inputSchema", EmptyDict)]

_list_tools(result) ==
    LET listed == Get(result, "tools", <<>>) IN
    IF \E k \in 1..Len(listed) : "name" \notin DOMAIN listed[k]
    THEN Raised("KeyError")
    ELSE Returned([k \in 1..Len(listed) |-> MCPTool(listed[k])])

\* call_tool on the client's endpoint
call_tool_on(endpoint, reply) ==
    LET sent == _send_request(endpoint, reply) IN
    IF sent.raised THEN sent ELSE call_tool(reply)

\* _parse_sse_response_sync
RECURSIVE _parse_sse_response_sync(_, _)
_parse_sse_response_sync(lines, result) ==
    IF lines = <<>> THEN Returned(result)
    ELSE LET data == Head(lines) IN
         IF ~Decodes(data) THEN _parse_sse_response_sync(Tail(lines), result)
         ELSE IF "result" \in DOMAIN data
         THEN _parse_sse_response_sync(Tail(lines), Get(data, "result", EmptyDict))
         ELSE IF "error" \in DOMAIN data
              THEN Raised("MCP error")
              ELSE _parse_sse_response_sync(Tail(lines), result)

\* _send_request_sync
_send_request_sync_NoStatusCheck(endpoint, reply) ==
    IF endpoint = None THEN Raised("Not connected to MCP server")
    ELSE IF reply.framing = "text/event-stream"
         THEN _parse_sse_response_sync(reply.body, EmptyDict)
    ELSE IF reply.body = <<>> \/ ~Decodes(reply.body[1])
         THEN Raised("JSONDecodeError")
    ELSE IF "error" \in DOMAIN reply.body[1] THEN Raised("MCP error")
    ELSE Returned(Get(reply.body[1], "result", EmptyDict))

_send_request_sync(endpoint, reply) ==
    IF endpoint = None THEN Raised("Not connected to MCP server")
    ELSE IF reply.status >= 400 THEN Raised("HTTPStatusError")
    ELSE IF reply.framing = "text/event-stream"
         THEN _parse_sse_response_sync(reply.body, EmptyDict)
    ELSE IF reply.body = <<>> \/ ~Decodes(reply.body[1])
         THEN Raised("JSONDecodeError")
    ELSE IF "error" \in DOMAIN reply.body[1] THEN Raised("MCP error")
    ELSE Returned(Get(reply.body[1], "result", EmptyDict))

\* _list_tools_sync: the MCPTool list built from a tools/list result
_list_tools_sync(result) ==
    LET listed == Get(result, "tools", <<>>) IN
    IF \E k \in 1..Len(listed) : "name" \notin DOMAIN listed[k]
    THEN Raised("KeyError")
    ELSE Returned([k \in 1..Len(listed) |->
            [name |-> listed[k].name,
             description |-> Get(listed[k], "description", <<>>),
             input_schema |-> Get(listed[k], "inputSchema", EmptyDict)]])

\* call_tool_sync on the client's endpoint
call_tool_sync_on(endpoint, reply) ==
    LET result == _send_request_sync(endpoint, reply) IN
    IF result.raised THEN result
    ELSE LET content == Get(result.value, "content", <<>>)
             text_parts == SelectSeq(content, LAMBDA item : Get(item, "type", "") = "text")
             texts == [k \in 1..Len(text_parts) |-> Get(text_parts[k], "text", <<>>)]
         IN Returned([is_text |-> texts # <<>>,
                      text |-> JoinLines(texts),
                      raw |-> IF texts # <<>> THEN <<>> ELSE content,
                      is_error |-> Get(result.value, "isError", FALSE)])

\* the two call surfaces of the client
Surfaces == {"async", "sync"}

SendOn(surface, endpoint, reply) ==
    IF surface = "sync" THEN _send_request_sync(endpoint, reply)
    ELSE _send_request(endpoint, reply)

ListOn(surface, result) ==
    IF surface = "sync" THEN _list_tools_sync(result) ELSE _list_tools(result)

CallOn(surface, endpoint, reply) ==
    IF surface = "sync" THEN call_tool_sync_on(endpoint, reply)
    ELSE call_tool_on(endpoint, reply)

\* the three fields of the client
Client == [tools |-> _tools, session_id |-> _session_id,
           message_endpoint |-> _message_endpoint]

\* __init__
FreshClient == [tools |-> <<>>, session_id |-> None, message_endpoint |-> None]

\* disconnect, as a function of the client's fields
disconnect_KeepsTools(client) ==
    [tools |-> client.tools, session_id |-> None, message_endpoint |-> None]

disconnect(client) ==
    [tools |-> <<>>, session_id |-> None, message_endpoint |-> None]

\* connect's requests, in the order of its code
ConnectOrder_ListFirst == <<"initialize", "tools/list", "notifications/initialized">>

ConnectOrder == <<"initialize", "notifications/initialized", "tools/list">>

\* connect / connect_sync run to its end on a client, the server answering
\* its requests with the replies in turn: the requests sent, the client
\* left, and what connect returns or raises
ConnectRun(surface, client, replies) ==
    LET begun == [client EXCEPT !.message_endpoint = Url, !.session_id = SessionId]
        got(k) == SendOn(surface, begun.message_endpoint, replies[k])
        ended(k, outcome) ==
            [sent |-> SubSeq(ConnectOrder, 1, k), client |-> begun, outcome |-> outcome]
    IN
    IF got(1).raised THEN ended(1, got(1))
    ELSE IF got(2).raised THEN ended(2, got(2))
    ELSE IF got(3).raised THEN ended(3, got(3))
    ELSE LET listed == ListOn(surface, got(3).value) IN
         IF listed.raised THEN ended(3, listed)
         ELSE [sent |-> ConnectOrder,
               client |-> [begun EXCEPT !.tools = listed.value],
               outcome |-> Returned(None)]

\* the operation that ended in the latest step, if one did: the request it
\* was about, whether that request was posted, the reply, what the
\* operation returned or raised, whether it stored a tool list, and the
\* client before it
OpDone(op, surface, method, sent, reply, outcome, stored) ==
    [op |-> op, surface |-> surface, method |-> method, sent |-> sent,
     reply |-> reply, outcome |-> outcome, stored |-> stored, before |-> Client]

NoOp ==
    [op |-> "none", surface |-> "async", method |-> "", sent |-> FALSE, reply |-> Accepted,
     outcome |-> Returned(EmptyDict), stored |-> FALSE, before |-> FreshClient]

\* position of a request in connect
Step(method) == CHOOSE k \in 1..Len(ConnectOrder) : ConnectOrder[k] = method

McpInit ==
    /\ _tools = FreshClient.tools
    /\ _session_id = FreshClient.session_id
    /\ _message_endpoint = FreshClient.message_endpoint
    /\ connect_pc = "idle"
    /\ connect_log = <<>>
    /\ connect_surface = "async"
    /\ lifecycle = "new"
    /\ mcp_ops = 0
    /\ mcp_done = NoOp

\* connect / connect_sync up to the first reply: the endpoint and the
\* session id are set and initialize is sent
Connect(surface) ==
    /\ connect_pc = "idle"
    /\ connect_surface' = surface
    /\ mcp_ops < MaxOps
    /\ _message_endpoint' = Url
    /\ _session_id' = SessionId
    /\ connect_pc' = ConnectOrder[1]
    /\ connect_log' = <<[method |-> ConnectOrder[1], ok |-> FALSE]>>
    /\ mcp_ops' = mcp_ops + 1
    /\ mcp_done' = NoOp
    /\ UNCHANGED <<_tools, lifecycle>>
    /\ UNCHANGED <<agent_vars, token_vars, chat_vars>>

\* connect from one await to the next: the reply to the request in flight
\* arrives; a raise ends connect, a success sends the next request (which
\* raises unsent when a disconnect has cleared the endpoint meanwhile) or,
\* after tools/list, stores the tool list
ConnectReply(reply) ==
    /\ connect_pc # "idle"
    /\ reply \in McpReplies(connect_pc)
    /\ LET k == Step(connect_pc)
           got == SendOn(connect_surface, Url, reply)
           answered == [connect_log EXCEPT ![k].ok = TRUE]
       IN
       IF got.raised
       THEN /\ connect_pc' = "idle"
            /\ mcp_done' = OpDone("connect", connect_surface, connect_pc, TRUE, reply, got, FALSE)
            /\ UNCHANGED <<_tools, connect_log, lifecycle>>
       ELSE IF k < Len(ConnectOrder)
       THEN LET next == SendOn(connect_surface, _message_endpoint, Accepted) IN
            IF Sends(_message_endpoint)
            THEN /\ connect_pc' = ConnectOrder[k + 1]
                 /\ connect_log' =
                        Append(answered, [method |-> ConnectOrder[k + 1], ok |-> FALSE])
                 /\ mcp_done' = NoOp
                 /\ UNCHANGED <<_tools, lifecycle>>
            ELSE /\ connect_pc' = "idle"
                 /\ connect_log' = answered
                 /\ mcp_done' =
                        OpDone("connect", connect_surface, ConnectOrder[k + 1], FALSE, reply, next, FALSE)
                 /\ UNCHANGED <<_tools, lifecycle>>
       ELSE LET listed == ListOn(connect_surface, got.value) IN
            /\ connect_pc' = "idle"
            /\ connect_log' = answered
            /\ _tools' = IF listed.raised THEN _tools ELSE listed.value
            /\ lifecycle' = IF listed.raised THEN lifecycle ELSE "connected"
            /\ mcp_done' =
                   OpDone("connect", connect_surface, connect_pc, TRUE, reply,
                          IF listed.raised THEN listed ELSE Returned(None),
                          ~listed.raised)
    /\ UNCHANGED <<_session_id, _message_endpoint, connect_surface, mcp_ops>>
    /\ UNCHANGED <<agent_vars, token_vars, chat_vars>>

\* call_tool / call_tool_sync
CallTool(reply, surface) ==
    /\ mcp_ops < MaxOps
    /\ reply \in McpReplies("tools/call")
    /\ mcp_ops' = mcp_ops + 1
    /\ mcp_done' =
           OpDone("call_tool", surface, "tools/call", Sends(_message_endpoint), reply,
                  CallOn(surface, _message_endpoint, reply), FALSE)
    /\ UNCHANGED <<_tools, _session_id, _message_endpoint, connect_pc, connect_log,
                   connect_surface, lifecycle>>
    /\ UNCHANGED <<agent_vars, token_vars, chat_vars>>

\* disconnect
Disconnect ==
    /\ mcp_ops < MaxOps
    /\ _tools' = disconnect(Client).tools
    /\ _session_id' = disconnect(Client).session_id
    /\ _message_endpoint' = disconnect(Client).message_endpoint
    /\ lifecycle' = "disconnected"
    /\ mcp_ops' = mcp_ops + 1
    /\ mcp_done' =
           OpDone("disconnect", "async", "", FALSE, Accepted, Returned(None), FALSE)
    /\ UNCHANGED <<connect_pc, connect_log, connect_surface>>
    /\ UNCHANGED <<agent_vars, token_vars, chat_vars>>

McpNext ==
    \/ \E surface \in Surfaces : Connect(surface)
    \/ \E reply \in McpReplies(connect_pc) : ConnectReply(reply)
    \/ \E reply \in McpReplies("tools/call"), surface \in Surfaces :
            CallTool(reply, surface)
    \/ Disconnect

----------------------------------------------------------------------------
(* Specifications *)

\* a run of the agent graph, beside an IdaaSClient nobody calls
Init ==
    AgentInit /\ thinking_callback = NoCallback /\ discovered = DefaultTools /\ TokenInit /\ config = SettingsConfig
        /\ McpInit /\ ChatInit

Spec == Init /\ [][Next]_vars

\* the graph runner keeps taking steps: every node returns or raises, every
\* network call answers or times out
FairSpec == Spec /\ WF_vars(Next)

\* the IdaaSClient and its callers, beside an agent graph that is not run
InitToken ==
    AgentInit /\ thinking_callback = NoCallback /\ discovered = DefaultTools /\ max_tool_calls = 0 /\ TokenInit /\ McpInit /\ ChatInit

TokenSpec == InitToken /\ [][TokenNext]_vars

ScopeSpec == InitToken /\ [][ScopeNext]_vars

\* a run of the agent graph, beside other users of the same GeminiProvider
ProviderSpec == Init /\ [][ProviderNext]_vars

\* one MCPClient and its users, beside an agent graph that is not run and
\* an IdaaSClient nobody calls
InitMcp ==
    AgentInit /\ thinking_callback = NoCallback /\ discovered = DefaultTools /\ max_tool_calls = 0 /\ TokenInit
        /\ config = SettingsConfig /\ McpInit /\ ChatInit

\* runs, with a budget of one tool call, whose tool results are around the
\* display limit
InitDisplay == Init /\ max_tool_calls = 1

DisplaySpec == InitDisplay /\ [][DisplayNext]_vars

\* a chat session: turns and clears in any order
SessionSpec == Init /\ [][SessionNext]_vars

\* a run on each supplied conversation
InitChat ==
    /\ \E msgs \in Conversations : AgentInitOn(msgs)
    /\ thinking_callback = NoCallback /\ discovered = DefaultTools /\ TokenInit
    /\ config = SettingsConfig /\ McpInit /\ ChatInit

ChatSpec == InitChat /\ [][ChatNext]_vars

\* a run of the agent graph built without and with a thinking callback
InitObserver ==
    AgentInit /\ thinking_callback \in {NoCallback, Observer}
        /\ discovered = DefaultTools /\ TokenInit /\ config = SettingsConfig
        /\ McpInit /\ ChatInit

ObserverSpec == InitObserver /\ [][ObserverNext]_vars

\* a run of the agent graph for each tool list a connect may have discovered
InitTools ==
    AgentInit /\ thinking_callback = NoCallback /\ discovered \in ToolLists /\ TokenInit /\ config = SettingsConfig
        /\ McpInit /\ ChatInit

ToolsSpec == InitTools /\ [][ToolsNext]_vars

McpSpec == InitMcp /\ [][McpNext]_vars

----------------------------------------------------------------------------
(* Properties of the agent graph *)

Last(q) == q[Len(q)]

Assistants == {i \in 1..Len(messages) : messages[i].role = "assistant"}

ToolMessages(msgs) == SelectSeq(msgs, LAMBDA m : m.role = "tool")

RequestsTools(m) == Get(m, "tool_calls", <<>>) # <<>>

\* the LLM stub that requests a tool call on every response, so far
AlwaysRequestsTools ==
    /\ Len(llm_inputs) = Cardinality(Assistants)
    /\ \A i \in Assistants : RequestsTools(messages[i])

Terminated == pc \in {"END", "raised"}

\* the run ended in finalize with the last response still requesting tools
BudgetCapped == pc = "END" /\ RequestsTools(Last(messages))

\* C1 as stated: with an LLM that requests a tool call on every response,
\* a run with a budget of N tool calls makes at most N LLM calls
C1_AtMostNIterations ==
    AlwaysRequestsTools => Len(llm_inputs) <= max_tool_calls

\* C1, amended: every run terminates; with an LLM that requests a tool call
\* on every response a run with a budget of N tool calls makes at most N + 1
\* LLM calls, and when it reaches END the budget is exhausted and the last
\* response's invocations were not executed
C1_TerminatesWithinBudget ==
    /\ [](AlwaysRequestsTools =>
            /\ Len(llm_inputs) <= max_tool_calls + 1
            /\ pc = "END" => (tool_calls_made >= max_tool_calls /\ BudgetCapped))
    /\ <>Terminated

C1_Witness ==
    /\ AlwaysRequestsTools
    /\ pc = "END"
    /\ max_tool_calls = MaxBudget
    /\ Len(llm_inputs) = max_tool_calls + 1

\* C2: in every reachable state tool_calls_made is at most max_tool_calls
C2_CounterWithinBudget == tool_calls_made <= max_tool_calls

\* finalize's result for a last message m
Finalization(m) ==
    [final_answer |-> FinalAnswer(<<m>>), events |-> FinalEvents(<<m>>)]

\* C3: a run that ends because the budget is exhausted while the LLM still
\* requests tools ends differently from a normal finalization of the same
\* text: its answer or its final event marks it as incomplete
C3_CappedResultIsMarked ==
    BudgetCapped =>
        [final_answer |-> final_answer, events |-> FinalEvents(messages)]
            # Finalization([role |-> "assistant", content |-> Last(messages).content])

\* the Tool Client stub that returns isError = true for every call, so far
AlwaysToolError ==
    /\ tool_log # <<>>
    /\ \A i \in 1..Len(tool_log) : tool_log[i].reply = "isError"

ErrorText == ErrorPrefix \o <<"b", "o", "o", "m">>

ErrorFlagged(m) ==
    /\ m.role = "tool"
    /\ Len(m.content) >= Len(ErrorPrefix)
    /\ SubSeq(m.content, 1, Len(ErrorPrefix)) = ErrorPrefix

\* the LLM call after the latest tools node has been made or is next
LlmCalledAgain == pc = "llm" \/ Len(llm_inputs) > Cardinality(Assistants)

\* C4: when every tool call returns isError = true, the run is not aborted:
\* each result gives an error event and a tool message carrying the error
\* text, in order, the LLM is called again after the batch, and a run that
\* ends has an error-flagged tool message in its conversation
C4_ToolErrorsAreAbsorbed ==
    AlwaysToolError =>
        LET done == ToolMessages(messages \o new_messages)
            errors == SelectSeq(thinking_events, LAMBDA e : e.type = "error")
        IN /\ \A i \in 1..Len(tool_log) : ~tool_log[i].raised
           /\ Len(done) = Len(tool_log)
           /\ Len(errors) = Len(tool_log)
           /\ \A i \in 1..Len(tool_log) :
                /\ done[i].tool_call_id = tool_log[i].id
                /\ done[i].content = ErrorText
                /\ errors[i].content = ErrorText
           /\ pc \in {"tools", "llm", "finalize", "END"} \/ Len(llm_inputs) > Cardinality(Assistants)
           /\ Last(messages).role = "tool" => LlmCalledAgain
           /\ pc = "END" => \E i \in 1..Len(messages) : ErrorFlagged(messages[i])

C4_Witness ==
    /\ AlwaysToolError
    /\ Len(tool_log) >= 2
    /\ pc = "END"
    /\ Len(llm_inputs) >= 2

\* C5: a reply carrying a JSON-RPC error makes call_tool raise, which ends
\* the run with no tool message for the invocation; a reply whose result
\* has isError = true makes call_tool return a result with is_error, which
\* does not end the run
C5_ProtocolErrorRaisesToolErrorReturns ==
    /\ \A i \in 1..Len(tool_log) :
          /\ tool_log[i].reply = "error" =>
                /\ tool_log[i].raised
                /\ i = Len(tool_log)
                /\ pc = "raised"
                /\ \A j \in 1..Len(messages) :
                      messages[j].role = "tool" => messages[j].tool_call_id # tool_log[i].id
          /\ tool_log[i].reply = "isError" =>
                /\ ~tool_log[i].raised
                /\ \E m \in {(messages \o new_messages)[j] : j \in 1..Len(messages \o new_messages)} :
                      m.role = "tool" /\ m.tool_call_id = tool_log[i].id /\ ErrorFlagged(m)
    /\ (last_reply # NoReply /\ ReplyKind(last_reply) = "error") => pc = "raised"
    /\ (last_reply # NoReply /\ ReplyKind(last_reply) = "isError") => pc \in {"tools", "llm"}

C5_Witness ==
    /\ Len(tool_log) >= 2
    /\ tool_log[1].reply = "isError"
    /\ Last(tool_log).reply = "error"
    /\ last_reply.framing = "text/event-stream"

\* the first response carried invocations and no text, the second carried
\* text and no invocations
FirstResponse == messages[2]

SecondResponseAt == CHOOSE i \in Assistants : Cardinality({j \in Assistants : j < i}) = 1

ToolThenAnswer ==
    /\ Cardinality(Assistants) >= 2
    /\ RequestsTools(FirstResponse)
    /\ ~Truthy(FirstResponse.content)
    /\ ~RequestsTools(messages[SecondResponseAt])
    /\ Truthy(messages[SecondResponseAt].content)

\* C6: when the first response carries k >= 1 invocations and no text and
\* the second carries text and no invocations, the k tool calls are made in
\* invocation order, their k tool messages follow the first response in that
\* order and are in the second LLM call's input, there are exactly two LLM
\* calls, tool_calls_made is k and the final answer is the second text
C6_ToolRoundTrip ==
    ToolThenAnswer =>
        LET invocations == FirstResponse.tool_calls
            k == Len(invocations)
        IN /\ Len(tool_log) = k
           /\ \A j \in 1..k :
                /\ tool_log[j].id = invocations[j].id
                /\ ~tool_log[j].raised
                /\ messages[2 + j].role = "tool"
                /\ messages[2 + j].tool_call_id = invocations[j].id
                /\ messages[2 + j].name = invocations[j].name
           /\ SecondResponseAt = k + 3
           /\ Len(messages) = k + 3
           /\ Len(llm_inputs) = 2
           /\ llm_inputs[2] = <<SystemMessage>> \o SubSeq(messages, 1, k + 2)
           /\ tool_calls_made = k
           /\ pc \in {"finalize", "END"}
           /\ pc = "END" => final_answer = messages[k + 3].content

C6_Witness ==
    /\ ToolThenAnswer
    /\ Len(FirstResponse.tool_calls) = 2
    /\ pc = "END"
    /\ final_answer = <<"5", "6">>

\* the first response carried text and no invocations
PlainAnswer ==
    /\ Len(messages) >= 2
    /\ ~RequestsTools(FirstResponse)
    /\ Truthy(FirstResponse.content)

FinalAnswerEvents == SelectSeq(thinking_events, LAMBDA e : e.type = "final_answer")

\* C7: when the first response carries non-empty text and no invocations,
\* the run makes one LLM call and no tool call, tool_calls_made stays 0, and
\* at END final_answer is that text and exactly one final_answer event has
\* been emitted
C7_PlainAnswer ==
    PlainAnswer =>
        /\ Len(llm_inputs) = 1
        /\ tool_log = <<>>
        /\ tool_calls_made = 0
        /\ Len(messages) = 2
        /\ pc \in {"finalize", "END"}
        /\ pc = "finalize" => FinalAnswerEvents = <<>>
        /\ pc = "END" =>
            /\ final_answer = FirstResponse.content
            /\ Len(FinalAnswerEvents) = 1
            /\ FinalAnswerEvents[1].content = FirstResponse.content

C7_Witness ==
    /\ PlainAnswer
    /\ pc = "END"
    /\ final_answer = <<"4">>

----------------------------------------------------------------------------
(* Properties of the token cache *)

AllIdle == \A c \in Callers : call[c].pc = "idle"

\* the current time is before the first stored token's expiry less the buffer
InFirstWindow ==
    /\ first_store # NoStore
    /\ now < first_store.token.expires_at - RefreshBuffer

C9_ClearThenAcquireFetchesOnce ==
    (last_done.after_clear /\ last_done.alone) =>
        /\ last_done.sent # 0
        /\ ~last_done.raised => last_done.value = last_done.sent

\* concurrent callers of one path only: every call started before any had
\* ended and while the cache was absent or expired; no clear_token, no
\* call raised
SamePathColdStart ==
    /\ Cardinality(paths_used) = 1
    /\ ~late_start
    /\ ~started_valid
    /\ ~cleared
    /\ ~failed

Fetching == {c \in Callers : call[c].pc = "fetching"}

\* C11: at no time are two token fetches of the client in flight, whatever
\* the call paths of the callers
C11_OneFetchInFlight == Cardinality(Fetching) <= 1

LocksHeldByFetchers ==
    /\ lock # Nobody => (call[lock].pc = "fetching" /\ call[lock].path = "sync")
    /\ async_lock \notin {NotCreated, Nobody} =>
          (call[async_lock].pc = "fetching" /\ call[async_lock].path = "async")

\* C13: a call that ends on a non-success status or on a response without
\* access_token raises, has sent one request, and has not assigned the
\* cached token; no call sends more than one request; a lock is held only
\* while its holder's request is in flight, so it is free once the call ended
C13_FailedFetchRaisesAndKeepsCache ==
    /\ last_done.response \in {"status", "no_token"} =>
          /\ last_done.raised
          /\ last_done.sent # 0
          /\ ~last_done.wrote
    /\ sends <= calls
    /\ LocksHeldByFetchers

\* a refresh failed while an expired token was cached, the token is still
\* there and both locks are free
C13_Witness ==
    /\ last_done.response = "no_token"
    /\ last_done.raised
    /\ token # NoToken
    /\ ~_is_token_valid(token, now)
    /\ AllIdle
    /\ lock = Nobody /\ async_lock = Nobody

\* the lifetime the configuration declares
ConfigLifetime(cfg) ==
    Get(cfg, "token_refresh_interval", Get(cfg, "token_refresh_time", 0))

\* C14: a call that ends on a response with an access_token returns that
\* token and has stored it, with an expiry of the fetch time plus the
\* response's expires_in if it declares one, plus the configuration's
\* lifetime otherwise
C14_SuccessStoresTokenWithLifetime ==
    last_done.response = "ok" =>
        /\ ~last_done.raised
        /\ last_done.wrote
        /\ last_done.value = last_done.sent
        /\ last_done.lifetime =
              IF last_done.declared # 0 THEN last_done.declared
              ELSE ConfigLifetime(config)

----------------------------------------------------------------------------
(* Properties of the provider *)

\* the external calls of one provider call: the token call with the
\* configured scope comes first; a failed token call is the only call made;
\* otherwise the one LLM request follows and carries the token as bearer
TokenBeforeRequest(method, made) ==
    /\ made[1].op = (IF method = "generate_sync" THEN "get_token_sync" ELSE "get_token")
    /\ made[1].scope = LlmScope
    /\ \A i \in 2..Len(made) : made[i].op = "post"
    /\ made[1].raised => Len(made) = 1
    /\ ~made[1].raised =>
          /\ Len(made) = 2
          /\ made[2].authorization = <<"B", "e", "a", "r", "e", "r", " ", "T">>

\* C15: every generate, generate_sync and generate_stream call gets a token
\* with the configured scope before it sends the LLM request; when the token
\* call raises no LLM request is sent and the call raises; in a run of the
\* graph that step appends no assistant message and ends the run
C15_TokenBeforeLlmRequest ==
    /\ direct_call # NoDirectCall =>
          /\ TokenBeforeRequest(direct_call.method, direct_call.calls)
          /\ direct_call.calls[1].raised => direct_call.raised
    /\ provider_calls # <<>> =>
          /\ TokenBeforeRequest("generate", provider_calls)
          /\ provider_calls[1].raised =>
                /\ pc = "raised"
                /\ Cardinality(Assistants) = Len(llm_inputs) - 1
                /\ Last(messages).role # "assistant"

\* the second LLM call of a run failed to get a token, and a generate_stream
\* call outside the graph failed the same way
C15_Witness ==
    /\ Len(llm_inputs) = 2
    /\ provider_calls[1].raised
    /\ pc = "raised"
    /\ direct_call.method = "generate_stream"
    /\ direct_call.calls[1].raised

----------------------------------------------------------------------------
(* Properties of the MCP client *)

\* the requests connect has sent are initialize, notifications/initialized
\* and tools/list in that order, each sent only after the one before it was
\* answered successfully; a connect that stored a tool list had all three
\* answered successfully; a connect that raised on a reply sent nothing after
\* the request that failed
HandshakeOrder ==
    /\ Len(connect_log) <= 3
    /\ \A k \in 1..Len(connect_log) :
          /\ connect_log[k].method =
                <<"initialize", "notifications/initialized", "tools/list">>[k]
          /\ k > 1 => connect_log[k - 1].ok
    /\ (mcp_done.op = "connect" /\ mcp_done.stored) =>
          /\ Len(connect_log) = 3
          /\ \A k \in 1..Len(connect_log) : connect_log[k].ok
    /\ (mcp_done.op = "connect" /\ mcp_done.outcome.raised /\ mcp_done.sent) =>
          /\ connect_pc = "idle"
          /\ Last(connect_log).method = mcp_done.method

\* the tool list changes to a non-empty list only in the step in which
\* tools/list is answered successfully
StoredAfterList ==
    (_tools' # _tools /\ _tools' # <<>>) =>
        /\ connect_pc = "tools/list"
        /\ mcp_done'.stored
        /\ Last(connect_log').ok

\* C16: connect sends initialize, notifications/initialized and tools/list
\* strictly in that order, each only after the previous one completed
\* successfully; the tool list is stored only after tools/list succeeds, and
\* after a failed step no later request is sent
C16_HandshakeInOrder == []HandshakeOrder /\ [][StoredAfterList]_vars

\* a connect that went through all three requests and stored two tools
C16_Witness ==
    /\ mcp_done.op = "connect"
    /\ mcp_done.stored
    /\ Len(_tools) = 2
    /\ Len(connect_log) = 3

\* C17: while no connect has completed successfully since construction or
\* since the last disconnect, the tools accessor is empty, and a call_tool
\* made then, with no connect in progress, has raised the not-connected
\* error without posting a request
C17_EmptyAndRefusingUntilConnected ==
    lifecycle # "connected" =>
        /\ _tools = <<>>
        /\ (mcp_done.op = "call_tool" /\ connect_pc = "idle") =>
              /\ ~mcp_done.sent
              /\ mcp_done.outcome = Raised("Not connected to MCP server")

\* the part of C17 about the tools accessor alone
ToolsEmptyUntilConnected == lifecycle # "connected" => _tools = <<>>

\* the part of C17 about call_tool, for a client whose endpoint is unset
RefusesWithoutEndpoint ==
    (mcp_done.op = "call_tool" /\ mcp_done.before.message_endpoint = None) =>
        /\ ~mcp_done.sent
        /\ mcp_done.outcome = Raised("Not connected to MCP server")

\* C18: disconnect leaves the session id, the message endpoint and the tool
\* list cleared from every state the client reaches, a second disconnect
\* changes nothing, and the state after disconnect is the state of a freshly
\* constructed client
C18_DisconnectResetsAndIsIdempotent ==
    /\ disconnect(Client) =
          [tools |-> <<>>, session_id |-> None, message_endpoint |-> None]
    /\ disconnect(disconnect(Client)) = disconnect(Client)
    /\ disconnect(FreshClient) = FreshClient
    /\ mcp_done.op = "disconnect" =>
          /\ Client = FreshClient
          /\ _tools = <<>> /\ _session_id = None /\ _message_endpoint = None
          /\ disconnect(Client) = Client

\* disconnect has just run on a connected client that held two tools
C18_Witness ==
    /\ mcp_done.op = "disconnect"
    /\ Len(mcp_done.before.tools) = 2
    /\ mcp_done.before.message_endpoint = Url
    /\ mcp_done.before.session_id = SessionId

\* disconnect has just run on a client that was already disconnected
DisconnectedTwice ==
    /\ mcp_done.op = "disconnect"
    /\ lifecycle = "disconnected"
    /\ mcp_done.before = FreshClient
    /\ mcp_ops >= 2

\* the JSON-RPC message of a 2xx reply
Message(reply) ==
    IF reply.framing = "text/event-stream" THEN reply.body[2] ELSE reply.body[1]

\* a call_tool that has just returned a result
CallReturned == mcp_done.op = "call_tool" /\ ~mcp_done.outcome.raised

\* the content array and the isError flag of the tools/call result
SentResult == Get(Message(mcp_done.reply), "result", EmptyDict)

SentContent == Get(SentResult, "content", <<>>)

SentIsError == Get(SentResult, "isError", FALSE)

IsTextPart(part) == Get(part, "type", "") = "text"

\* the text fields of the parts, last one last, with a newline between two
RECURSIVE NewlineJoined(_)
NewlineJoined(parts) ==
    IF Len(parts) = 0 THEN <<>>
    ELSE IF Len(parts) = 1 THEN Get(parts[1], "text", <<>>)
    ELSE NewlineJoined(SubSeq(parts, 1, Len(parts) - 1)) \o <<"\n">>
            \o Get(parts[Len(parts)], "text", <<>>)

\* C19 as stated: for every tools/call result, call_tool returns as content
\* the text of the text parts in array order joined with newlines, and as
\* is_error the isError flag, false when absent
C19_ContentIsJoinedText ==
    CallReturned =>
        /\ mcp_done.outcome.value.is_text
        /\ mcp_done.outcome.value.text = NewlineJoined(SelectSeq(SentContent, IsTextPart))
        /\ mcp_done.outcome.value.is_error = SentIsError

\* C19 amended: when the content array has at least one text part, the
\* content returned is the text of the text parts in array order joined with
\* newlines; when it has none, the content returned is the content array
\* itself; is_error is the isError flag, false when absent
C19_ContentIsJoinedTextOrRawArray ==
    CallReturned =>
        LET texts == SelectSeq(SentContent, IsTextPart) IN
        /\ mcp_done.outcome.value.is_text = (texts # <<>>)
        /\ texts # <<>> => mcp_done.outcome.value.text = NewlineJoined(texts)
        /\ texts = <<>> => mcp_done.outcome.value.raw = SentContent
        /\ mcp_done.outcome.value.is_error = SentIsError

\* call_tool returned for a result with two text parts around an image part
\* and isError set
C19_Witness ==
    /\ CallReturned
    /\ SentContent = <<TextB, ImagePart, TextA>>
    /\ SentIsError
    /\ mcp_done.outcome.value.text = <<"o", "k", "\n", "5", "6">>
    /\ mcp_done.outcome.value.is_error

\* call_tool returned for a result whose only part is an image
RawArrayReturned ==
    /\ CallReturned
    /\ SentContent = <<ImagePart>>
    /\ mcp_done.outcome.value.raw = <<ImagePart>>

\* an operation has just ended on a 2xx reply to a request it posted
Answered == mcp_done.op # "none" /\ mcp_done.sent /\ mcp_done.reply.status = 200

\* what the client makes of message m delivered in a framing
Delivered(framing, m) == _send_request(Url, Frame(framing, m))

\* C20: a JSON-RPC message delivered as a text/event-stream body yields what
\* the same message yields as an application/json body: its result object
\* when it carries result, a raised protocol error when it carries error; a
\* tools/list result {tools: []} makes connect store an empty tool list and
\* call_tool gives the same outcome in both framings
C20_SseAsJson ==
    (Answered /\ "jsonrpc" \in DOMAIN Message(mcp_done.reply)) =>
        LET m == Message(mcp_done.reply) IN
        /\ Delivered("text/event-stream", m) = Delivered("application/json", m)
        /\ "result" \in DOMAIN m =>
              Delivered(mcp_done.reply.framing, m) = Returned(m.result)
        /\ "error" \in DOMAIN m =>
              /\ Delivered(mcp_done.reply.framing, m) = Raised("MCP error")
              /\ mcp_done.outcome = Raised("MCP error")
        /\ mcp_done.op = "call_tool" =>
              mcp_done.outcome = call_tool_on(Url, Frame("application/json", m))
        /\ (mcp_done.method = "tools/list" /\ m = RpcResult([tools |-> <<>>])) =>
              /\ mcp_done.stored
              /\ ~mcp_done.outcome.raised
              /\ _tools = <<>>

\* connect has just stored the empty tool list of an SSE-framed tools/list
\* reply
C20_Witness ==
    /\ Answered
    /\ mcp_done.reply.framing = "text/event-stream"
    /\ mcp_done.method = "tools/list"
    /\ Message(mcp_done.reply) = RpcResult([tools |-> <<>>])
    /\ mcp_done.stored
    /\ _tools = <<>>

\* an SSE-framed error reply has just made call_tool raise
SseErrorRaised ==
    /\ Answered
    /\ mcp_done.op = "call_tool"
    /\ mcp_done.reply.framing = "text/event-stream"
    /\ Message(mcp_done.reply) = RpcError
    /\ mcp_done.outcome = Raised("MCP error")

\* an operation has just ended on a reply to tools/list or tools/call that
\* json cannot decode, or that carries neither result nor error
DefectiveReply ==
    /\ Answered
    /\ mcp_done.method \in {"tools/list", "tools/call"}
    /\ Message(mcp_done.reply) \in {Malformed, RpcBare}

\* C21: a reply to tools/list or tools/call that is malformed JSON, or has
\* neither result nor error, in either framing, makes the call raise; it is
\* never turned into an empty tool list or an empty successful tool result
C21_DefectiveReplyIsFatal ==
    DefectiveReply =>
        /\ mcp_done.outcome.raised
        /\ ~mcp_done.stored

\* the one defective reply the client does refuse: an undecodable body in
\* the JSON framing
UndecodableJsonBodyRaises ==
    (DefectiveReply /\ mcp_done.reply.framing = "application/json"
                    /\ Message(mcp_done.reply) = Malformed) =>
        mcp_done.outcome = Raised("JSONDecodeError")

\* the other call surface
Other(surface) == IF surface = "sync" THEN "async" ELSE "sync"

\* a connect or connect_sync has just begun on the client
ConnectBegun == connect_pc = "initialize" /\ mcp_done = NoOp

\* C22: in every state of the client and for every sequence of server
\* replies, connect_sync and call_tool_sync send the same requests in the
\* same order, leave the same client state and return the same result or
\* raise the same error as connect and call_tool (the connect runs compared
\* in every state in which one begins)
C22_SyncAsAsync ==
    /\ \A r \in McpReplies("tools/call") :
          call_tool_sync_on(_message_endpoint, r) = call_tool_on(_message_endpoint, r)
    /\ ConnectBegun =>
          \A r1 \in McpReplies("initialize"),
             r2 \in McpReplies("notifications/initialized"),
             r3 \in McpReplies("tools/list") :
             ConnectRun("sync", Client, <<r1, r2, r3>>)
                 = ConnectRun("async", Client, <<r1, r2, r3>>)
    /\ mcp_done.op = "call_tool" =>
          mcp_done.outcome =
              CallOn(Other(mcp_done.surface), mcp_done.before.message_endpoint,
                     mcp_done.reply)
    /\ (mcp_done.op = "connect" /\ mcp_done.sent) =>
          /\ SendOn("sync", Url, mcp_done.reply) = SendOn("async", Url, mcp_done.reply)
          /\ mcp_done.stored =>
                _tools = ListOn(Other(mcp_done.surface),
                                SendOn(mcp_done.surface, Url, mcp_done.reply).value).value

\* connect_sync has just stored two tools, and call_tool_sync would now
\* return a result
C22_Witness ==
    /\ mcp_done.op = "connect"
    /\ mcp_done.surface = "sync"
    /\ mcp_done.stored
    /\ Len(_tools) = 2
    /\ ConnectRun("sync", FreshClient,
                  <<Frame("application/json", RpcResult(EmptyDict)),
                    Frame("application/json", RpcResult(EmptyDict)),
                    mcp_done.reply>>).client = Client

----------------------------------------------------------------------------
(* Properties of the tool conversions *)

StrippedKeys == {"$schema", "additionalProperties"}

\* C23: for every tool with a non-empty schema, convert_mcp_tools_to_gemini
\* gives a declaration with the tool's name and description and with
\* parameters whose keys are the schema's keys other than $schema and
\* additionalProperties, each with the schema's value; and the tools' own
\* input_schema is as it was before the call
C23_GeminiStripsExactlyTwoKeys ==
    converted.called =>
        /\ Len(converted.declarations) = Len(converted.before)
        /\ \A k \in 1..Len(converted.before) :
              LET tool == converted.before[k]
                  declaration == converted.declarations[k]
              IN tool.input_schema # EmptyDict =>
                    /\ declaration.name = tool.name
                    /\ declaration.description = tool.description
                    /\ DOMAIN declaration.parameters =
                          DOMAIN tool.input_schema \ StrippedKeys
                    /\ \A key \in DOMAIN declaration.parameters :
                          declaration.parameters[key] = tool.input_schema[key]
        /\ discovered = converted.before

\* the conversion has run on a list with a schema that has both keys and a
\* schema that has additionalProperties nested in a property
C23_Witness ==
    /\ converted.called
    /\ \E k \in 1..Len(converted.before) :
          converted.before[k].input_schema = DraftSchema
    /\ \E k \in 1..Len(converted.before) :
          /\ converted.before[k].input_schema = NestedSchema
          /\ converted.declarations[k].parameters = NestedSchema

\* the run's latest generate call has sent an LLM request
RequestIssued == \E i \in 1..Len(provider_calls) : provider_calls[i].op = "post"

\* body["tools"] of the latest request, NoTools when the key is not set
body_tools == Get(request.body, "tools", NoTools)

\* body["tools"] is one wrapper whose functionDeclarations list has one
\* entry per discovered tool, in discovery order
OneWrapperInDiscoveryOrder ==
    /\ Len(body_tools) = 1
    /\ Len(body_tools[1].functionDeclarations) = Len(discovered)
    /\ \A k \in 1..Len(discovered) :
          body_tools[1].functionDeclarations[k].name = discovered[k].name

\* C24: every LLM request of a run carries the discovered tools as one
\* wrapper with one functionDeclarations entry per tool in discovery order,
\* and no entry's parameters has the key $schema or additionalProperties
C24_RequestToolsAreStripped ==
    RequestIssued =>
        /\ OneWrapperInDiscoveryOrder
        /\ \A k \in 1..Len(discovered) :
              LET declaration == body_tools[1].functionDeclarations[k] IN
              "parameters" \in DOMAIN declaration =>
                  DOMAIN declaration.parameters \cap StrippedKeys = {}

\* what holds of the requests: the wrapper, whenever there is a tool at all
WrapperWhenToolsExist ==
    (RequestIssued /\ discovered # <<>>) => OneWrapperInDiscoveryOrder

\* what C25 says of one message and its contents entry
TurnMatches(msg, entry) ==
    LET content == Get(msg, "content", <<>>) IN
    IF msg.role = "user"
    THEN entry.role = "user" /\ entry.parts = <<[text |-> content]>>
    ELSE IF msg.role = "assistant"
    THEN LET tool_calls == Get(msg, "tool_calls", <<>>)
             texts == IF content # None /\ content # <<>> THEN 1 ELSE 0
         IN /\ entry.role = "model"
            /\ Len(entry.parts) = texts + Len(tool_calls)
            /\ texts = 1 => entry.parts[1] = [text |-> content]
            /\ \A k \in 1..Len(tool_calls) :
                  entry.parts[texts + k] =
                      [functionCall |-> [name |-> tool_calls[k].name,
                                         args |-> tool_calls[k].arguments]]
    ELSE /\ entry.role = "user"
         /\ Len(entry.parts) = 1
         /\ DOMAIN entry.parts[1] = {"functionResponse"}
         /\ "name" \in DOMAIN msg => entry.parts[1].functionResponse.name = msg.name
         /\ entry.parts[1].functionResponse.response = [result |-> content]

\* C25: the conversion gives one contents entry per non-system message in
\* the same order, each of the shape of its role; system messages give no
\* entry, and the system instruction is that of the last system message,
\* absent when there is none
C25_OneTurnPerMessage ==
    request.built =>
        LET msgs == request.messages
            turns == SelectSeq(msgs, LAMBDA m : m.role # "system")
            systems == SelectSeq(msgs, LAMBDA m : m.role = "system")
            result == _convert_messages_to_gemini(msgs)
        IN /\ request.body.contents = result.contents
           /\ Len(result.contents) = Len(turns)
           /\ \A k \in 1..Len(turns) : TurnMatches(turns[k], result.contents[k])
           /\ systems = <<>> =>
                 /\ result.system_instruction = None
                 /\ "systemInstruction" \notin DOMAIN request.body
           /\ systems # <<>> =>
                 /\ result.system_instruction = systems[Len(systems)].content
                 /\ "systemInstruction" \in DOMAIN request.body =>
                       request.body.systemInstruction =
                           [parts |-> <<[text |-> systems[Len(systems)].content]>>]

\* a body built from a list with two system messages, an assistant message
\* with text and two tool calls, one with a tool call only, and tool
\* messages
C25_Witness ==
    /\ request.built
    /\ Len(request.messages) = 10
    /\ Len(request.body.contents) = 8
    /\ request.body.systemInstruction = [parts |-> <<[text |-> <<"B">>]>>]
    /\ Len(request.body.contents[2].parts) = 3

\* a request of a run after a tool round trip
RunRequestConverted ==
    /\ request.built
    /\ Len(llm_inputs) = 2
    /\ Len(request.body.contents) >= 3
    /\ request.messages = Last(llm_inputs)

----------------------------------------------------------------------------
(* Properties of the agent graph: errors, events, the conversation *)

\* C26: when a run ends with an error of the LLM call, the token fetch or a
\* tool call propagated to the caller, an error Thinking Event has been
\* emitted for it: the last event of the run is an error event
C26_ErrorEventBeforePropagation ==
    pc = "raised" =>
        /\ thinking_events # <<>>
        /\ Last(thinking_events).type = "error"

\* the error events a run does emit are those of tool results flagged
\* isError, one per such result
ErrorEventsAreToolLevel ==
    Cardinality({i \in 1..Len(thinking_events) : thinking_events[i].type = "error"})
        <= Cardinality({i \in 1..Len(tool_log) :
                           tool_log[i].reply = "isError" /\ ~tool_log[i].raised})

\* the run ended on a tool call that raised, or on an LLM call that raised
ToolFailed == pc = "raised" /\ tool_log # <<>> /\ Last(tool_log).raised

LlmFailed == pc = "raised" /\ ~ToolFailed

\* the assistant message at i is the last message, or is followed by the
\* whole batch of its tool results, in invocation order, and then by an
\* assistant message or nothing
BatchWholeOrAbsent(i) ==
    LET tool_calls == Get(messages[i], "tool_calls", <<>>)
        n == Len(tool_calls)
    IN \/ i = Len(messages)
       \/ /\ i + n <= Len(messages)
          /\ \A k \in 1..n :
                /\ messages[i + k].role = "tool"
                /\ messages[i + k].tool_call_id = tool_calls[k].id
          /\ i + n < Len(messages) => messages[i + n + 1].role = "assistant"

\* C27: the conversation holds one assistant message per LLM call that
\* completed and none for one that failed; the tool results of a batch are
\* appended all together or, when a call of the batch failed, not at all;
\* and every tool message is the result of a tool call that completed
C27_ConversationHoldsCompletedCallsOnly ==
    /\ Cardinality(Assistants) = Len(llm_inputs) - (IF LlmFailed THEN 1 ELSE 0)
    /\ \A i \in Assistants : BatchWholeOrAbsent(i)
    /\ \A i \in 1..Len(messages) :
          messages[i].role = "tool" =>
              \E k \in 1..Len(tool_log) :
                  tool_log[k].id = messages[i].tool_call_id /\ ~tool_log[k].raised
    /\ ToolFailed =>
          /\ Last(messages).role = "assistant"
          /\ \A i \in 1..Len(messages) :
                messages[i].role = "tool" =>
                    messages[i].tool_call_id # Last(tool_log).id
    /\ LlmFailed => (Len(llm_inputs) > 1 => Last(messages).role = "tool")

\* the second tool call of a batch raised after the first had returned a
\* result
C27_Witness ==
    /\ ToolFailed
    /\ tc_index = 2
    /\ Len(new_messages) = 1
    /\ Last(messages).role = "assistant"

\* C28: a run with a thinking callback ends as the run without one ends on
\* the same LLM and tool responses: by an exception only when an LLM call, a
\* token fetch or a tool call raised, and otherwise at END with the content
\* of the last message as its final answer
C28_ObserverNeverChangesTheRun ==
    thinking_callback # NoCallback =>
        /\ pc = "raised" => raised_by \in {"llm", "tool"}
        /\ pc = "END" => final_answer = FinalAnswer(messages)

\* a run without a callback ends by an exception only when an LLM call, a
\* token fetch or a tool call raised
RaisesOnlyOnFailedCalls ==
    thinking_callback = NoCallback =>
        (pc = "raised" => raised_by \in {"llm", "tool"})

\* the events of tool results, and the tool calls that returned one
IsResultEvent(e) == e.type \in {"tool_result", "error"}

CallEventsBefore(i) ==
    Cardinality({j \in 1..(i - 1) : thinking_events[j].type = "tool_call"})

ResultEventsUpTo(i) ==
    Cardinality({j \in 1..i : IsResultEvent(thinking_events[j])})

ReturnedCalls == SelectSeq(tool_log, LAMBDA c : ~c.raised)

\* the id of the last invocation of the batch the invocation id belongs to
BatchEnd(id) ==
    LET i == CHOOSE a \in Assistants :
                \E k \in DOMAIN Get(messages[a], "tool_calls", <<>>) :
                    messages[a].tool_calls[k].id = id
    IN Last(messages[i].tool_calls).id

\* the k-th result or error event is that of the k-th tool call that
\* returned, and it comes after the tool_call events of its own and of the
\* earlier batches and before those of any later batch; a final_answer
\* event is last; a reasoning event is followed by the final answer only
EventsInLoopOrder ==
    /\ ResultEventsUpTo(Len(thinking_events)) = Len(ReturnedCalls)
    /\ \A i \in 1..Len(thinking_events) :
          LET e == thinking_events[i] IN
          /\ IsResultEvent(e) =>
                LET c == ReturnedCalls[ResultEventsUpTo(i)] IN
                /\ e.metadata.tool_name = c.name
                /\ e.type = "error" <=> c.reply = "isError"
                /\ CallEventsBefore(i) = BatchEnd(c.id)
          /\ e.type = "final_answer" => i = Len(thinking_events)
          /\ e.type = "reasoning" =>
                \/ i = Len(thinking_events)
                \/ /\ i = Len(thinking_events) - 1
                   /\ Last(thinking_events).type = "final_answer"

\* C29: the events handed to the callback are at every moment the events
\* accumulated in the state, and they are in loop order: the tool_call
\* events of an iteration, then its result and error events in invocation
\* order, then the next iteration's; a final_answer event is last
C29_DeliveredInLoopOrder ==
    /\ thinking_callback # NoCallback => delivered = thinking_events
    /\ EventsInLoopOrder

\* a run with a callback that went through two iterations, one of them with
\* a batch of two tool calls, and ended with a final answer
C29_Witness ==
    /\ thinking_callback # NoCallback
    /\ pc = "END"
    /\ Len(llm_inputs) = 3
    /\ Len(ReturnedCalls) = 3
    /\ Last(thinking_events).type = "final_answer"
    /\ delivered = thinking_events

\* the system messages of a conversation, and of an agent input
SystemPositions(msgs) ==
    {i \in 1..Len(msgs) : Get(msgs[i], "role", "") = "system"}

SystemObjects(lc_messages) ==
    {i \in 1..Len(lc_messages) : lc_messages[i].class = "SystemMessage"}

StartsWithSystem(msgs) == 1 \in SystemPositions(msgs)

\* every message list the graph handed to the LLM starts with a system
\* message and is the conversation of that moment, with the configured
\* prompt in front exactly when that conversation did not start with a
\* system message
GraphSendsSystemFirst ==
    \A k \in 1..Len(llm_inputs) :
        LET sent == llm_inputs[k] IN
        /\ 1 \in SystemPositions(sent)
        /\ \E n \in 0..Len(messages) :
              LET conversation == SubSeq(messages, 1, n) IN
              sent = IF StartsWithSystem(conversation)
                     THEN conversation
                     ELSE <<SystemMessage>> \o conversation
        /\ SystemPositions(messages) = {} => SystemPositions(sent) = {1}

\* the same for SafeChainOrchestrator.run and the inputs of its agent
OrchestratorSendsSystemFirst ==
    safechain.pc # "idle" =>
        /\ \E n \in 0..Len(safechain.messages) :
              SubSeq(safechain.messages, 1, n) =
                  IF StartsWithSystem(safechain.supplied)
                  THEN safechain.supplied
                  ELSE <<SafeChainPrompt>> \o safechain.supplied
        /\ \A k \in 1..Len(safechain.agent_inputs) :
              LET sent == safechain.agent_inputs[k] IN
              /\ 1 \in SystemObjects(sent)
              /\ SystemPositions(safechain.supplied) = {} => SystemObjects(sent) = {1}

\* a step of a run appends no message of role system
NoSystemAppended ==
    /\ \A i \in (Len(messages) + 1)..Len(messages') :
          Get(messages'[i], "role", "") # "system"
    /\ safechain.pc = "loop" =>
          \A i \in (Len(safechain.messages) + 1)..Len(safechain'.messages) :
              Get(safechain'.messages[i], "role", "") # "system"

\* C30: every LLM call receives a message list whose first message has role
\* system; the configured prompt is put in front exactly when the
\* conversation does not start with a system message; no step appends a
\* system message; a conversation supplied without system messages is
\* sent with exactly one, in first position
C30_SystemMessageFirst ==
    /\ [](GraphSendsSystemFirst /\ OrchestratorSendsSystemFirst)
    /\ [][NoSystemAppended]_vars

\* the graph made its second LLM call on a supplied history of three
\* messages without a system message
C30_Witness ==
    /\ Len(llm_inputs) = 2
    /\ Len(messages) > 3
    /\ SubSeq(messages, 1, 3) = <<UserTurn, AssistantText, UserTurn>>
    /\ Len(llm_inputs[2]) > 5
    /\ SystemPositions(llm_inputs[2]) = {1}

\* the orchestrator made its second agent call on the same history
OrchestratorCalledTwice ==
    /\ Len(safechain.agent_inputs) = 2
    /\ safechain.supplied = <<UserTurn, AssistantText, UserTurn>>
    /\ SystemObjects(safechain.agent_inputs[2]) = {1}

\* the invocation messages[i].tool_calls[k] is answered by a later tool
\* message
InvocationAnswered(i, k) ==
    \E j \in (i + 1)..Len(messages) :
        /\ messages[j].role = "tool"
        /\ messages[j].tool_call_id = messages[i].tool_calls[k].id

CallEvents == SelectSeq(thinking_events, LAMBDA e : e.type = "tool_call")

ResultEvents == SelectSeq(thinking_events, IsResultEvent)

\* C31: in the final state every invocation recorded in an assistant
\* message is followed by a tool message for it, and every tool_call event
\* by a tool_result or error event: when the budget is exhausted the
\* invocations of the response are neither recorded nor announced
C31_BudgetCheckPrecedesRecording ==
    pc = "END" =>
        /\ \A i \in Assistants :
              \A k \in 1..Len(Get(messages[i], "tool_calls", <<>>)) :
                  InvocationAnswered(i, k)
        /\ Len(CallEvents) = Len(ResultEvents)

\* while the budget is not exhausted, the recorded invocations of a
\* completed iteration are all answered
RecordedWithinBudgetAreExecuted ==
    pc = "END" =>
        \A i \in Assistants :
            i < Len(messages) =>
                \A k \in 1..Len(Get(messages[i], "tool_calls", <<>>)) :
                    InvocationAnswered(i, k)

\* the run ended on a response without tool invocations
EndedOnPlainResponse == pc = "END" /\ ~RequestsTools(Last(messages))

OneFinalAnswerEventLast ==
    /\ Len(FinalAnswerEvents) = 1
    /\ Last(thinking_events).type = "final_answer"
    /\ Last(thinking_events).content = final_answer

\* C32: a run that ends because a response carries no tool invocations has
\* emitted exactly one final_answer event, as its last event, whose content
\* is the returned final answer, whatever the text of the response,
\* including none
C32_OneFinalAnswerEvent ==
    EndedOnPlainResponse => OneFinalAnswerEventLast

\* the same for the responses that carry a non-empty text
FinalAnswerEventForText ==
    (EndedOnPlainResponse /\ Truthy(Last(messages).content)) => OneFinalAnswerEventLast

\* the tool messages of the conversation, and the assistant message that
\* immediately precedes the tool message at j
ToolPositions == {j \in 1..Len(messages) : messages[j].role = "tool"}

PrecedingAssistant(j) ==
    CHOOSE a \in Assistants :
        a < j /\ \A b \in Assistants : b < j => b <= a

\* C33: every tool message carries the tool_call_id and the name of one
\* invocation of the immediately preceding assistant message, the one at
\* its own place in the batch; an executed batch has one tool message per
\* invocation, in invocation order; no two tool messages share a
\* tool_call_id
C33_ToolMessagesReferBack ==
    /\ \A j \in ToolPositions :
          /\ \E a \in Assistants : a < j
          /\ LET a == PrecedingAssistant(j)
                 tool_calls == Get(messages[a], "tool_calls", <<>>)
             IN /\ j - a <= Len(tool_calls)
                /\ messages[j].tool_call_id = tool_calls[j - a].id
                /\ messages[j].name = tool_calls[j - a].name
    /\ \A a \in Assistants :
          a < Len(messages) =>
              \A k \in 1..Len(Get(messages[a], "tool_calls", <<>>)) :
                  /\ a + k \in ToolPositions
                  /\ messages[a + k].tool_call_id = messages[a].tool_calls[k].id
    /\ \A i, j \in ToolPositions :
          messages[i].tool_call_id = messages[j].tool_call_id => i = j

\* a batch of two invocations was executed after a batch of one
C33_Witness ==
    /\ Cardinality(ToolPositions) = 3
    /\ Len(messages) >= 6
    /\ Len(Get(messages[4], "tool_calls", <<>>)) = 2
    /\ messages[5].role = "tool"
    /\ messages[6].role = "tool"

\* what the display shows of a result text
Displayed(text) ==
    IF Len(text) <= DisplayLimit
    THEN text
    ELSE SubSeq(text, 1, DisplayLimit) \o <<"...">>

\* the text of the result the server sent in the reply of the latest step
LastReplyText == last_reply.body[1].result.content[1].text

\* the tool messages of the run so far, those of the batch in progress
\* included
ToolMessagesSoFar == ToolMessages(messages) \o new_messages

SafeChainResultEvents == SelectSeq(safechain.thinking_events, IsResultEvent)

\* C34: the tool_result event of a successful result shows the result text
\* when it has at most 500 characters and otherwise its first 500
\* characters and an ellipsis; the tool message holds the whole text
C34_EventTruncatedMessageWhole ==
    /\ Len(ResultEvents) = Len(ToolMessagesSoFar)
    /\ \A k \in 1..Len(ResultEvents) :
          ResultEvents[k].type = "tool_result" =>
              ResultEvents[k].content = Displayed(ToolMessagesSoFar[k].content)
    /\ (last_reply # NoReply /\ ~last_reply.body[1].result.isError) =>
          /\ Last(ToolMessagesSoFar).content = LastReplyText
          /\ Last(ResultEvents).content = Displayed(LastReplyText)
    /\ Len(SafeChainResultEvents) = Len(ToolMessages(safechain.messages))
    /\ \A k \in 1..Len(SafeChainResultEvents) :
          SafeChainResultEvents[k].type = "tool_result" =>
              /\ ToolMessages(safechain.messages)[k].content \in DisplayTexts
              /\ SafeChainResultEvents[k].content =
                    Displayed(ToolMessages(safechain.messages)[k].content)

\* a result one character over the limit was shown cut and recorded whole
C34_Witness ==
    /\ last_reply # NoReply
    /\ ~last_reply.body[1].result.isError
    /\ LastReplyText = LongText
    /\ Len(Last(ResultEvents).content) = DisplayLimit + 1
    /\ Last(Last(ResultEvents).content) = "..."
    /\ Last(ToolMessagesSoFar).content = LongText

\* the same in the orchestrator's loop
OrchestratorShowedCut ==
    /\ SafeChainResultEvents # <<>>
    /\ Last(Last(SafeChainResultEvents).content) = "..."
    /\ Last(safechain.messages).content = LongText

\* run has ended
SafeChainEnded == safechain.pc = "returned"

ReturnsResultDict ==
    /\ ~safechain.outcome.raised
    /\ Len(safechain.agent_inputs) <= safechain.max_iterations

\* C35: for every max_iterations >= 0 and every agent behaviour run ends by
\* returning a result, after at most max_iterations agent calls
C35_RunReturnsWithinMaxIterations ==
    /\ Len(safechain.agent_inputs) <= safechain.max_iterations
    /\ SafeChainEnded => ReturnsResultDict

\* the same when max_iterations is at least 1
ReturnsWhenLoopMayRun ==
    (SafeChainEnded /\ safechain.max_iterations >= 1) => ReturnsResultDict

\* the history is a sequence of user/assistant pairs, at most HistoryLimit
\* messages long
HistoryWellFormed ==
    LET history == session.conversation_history IN
    /\ Len(history) <= HistoryLimit
    /\ Len(history) % 2 = 0
    /\ \A i \in 1..Len(history) :
          history[i].role = IF i % 2 = 1 THEN "user" ELSE "assistant"

\* a failed turn leaves the history as it was, a clear empties it
FailedTurnAndClear ==
    /\ session'.last = "failed" =>
          session'.conversation_history = session.conversation_history
    /\ session'.last = "clear" => session'.conversation_history = <<>>

\* C36: after any sequence of turns, failed turns and clears,
\* conversation_history has at most 20 messages and an even length,
\* alternates user and assistant from a user message on, and so holds no
\* system or tool message; a failed turn leaves it unchanged, a clear
\* empties it
C36_HistoryAlternatesWithinLimit ==
    []HistoryWellFormed /\ [][FailedTurnAndClear]_vars

\* a turn on a full history dropped its oldest pair
C36_Witness ==
    /\ session.last = "turn"
    /\ session.cut
    /\ Len(session.conversation_history) = HistoryLimit
    /\ Len(session.supplied) = HistoryLimit + 1

\* a connect on a client never connected nor disconnected before has just
\* failed
FirstConnectFailed ==
    /\ lifecycle = "new"
    /\ mcp_done.op = "connect"
    /\ mcp_done.outcome.raised

\* C37: a connect whose initialize handshake or tools/list failed leaves
\* the session id, the message endpoint and the tool list as they were
\* before the call: after a failed first connect the client is as
\* constructed, and a call_tool made then raises the not-connected error
\* without posting a request
C37_ConnectIsAllOrNothing ==
    /\ FirstConnectFailed => Client = FreshClient
    /\ (lifecycle = "new" /\ connect_pc = "idle" /\ mcp_done.op = "call_tool") =>
          /\ ~mcp_done.sent
          /\ mcp_done.outcome = Raised("Not connected to MCP server")

\* the tool list, for its part, is as it was before a connect that failed
FailedConnectKeepsTools ==
    (mcp_done.op = "connect" /\ mcp_done.outcome.raised) => _tools = mcp_done.before.tools

\* caller c leaves get_token / get_token_sync in this step with the cached
\* token, without a request of its own
ReturnsCached(c) ==
    /\ call[c].pc = "acquire"
    /\ call'[c].pc = "idle"
    /\ ~last_done'.raised

\* caller c leaves in this step with the token its own request fetched
ReturnsFetched(c) ==
    /\ call[c].pc = "fetching"
    /\ call'[c].pc = "idle"
    /\ ~last_done'.raised

ForScopeOf(c) ==
    LET body == _build_request_body(config, call[c].scope) IN
    /\ ~body.raised
    /\ body.value = fetched_for'

FetchedTokenIsForRequestedScope ==
    [][\A c \in Callers : ReturnsFetched(c) => ForScopeOf(c)]_vars

\* the pass of the orchestrator's loop in which the model answered with
\* this response
PassOn(response) == SafeChainIterate(MCPToolAgent_ainvoke(response))

\* after the step the run goes on and its last messages are tool messages,
\* one for each of these tool calls, in order
AnsweredEach(tool_calls) ==
    LET n == Len(tool_calls)
        after == safechain'.messages
    IN /\ safechain'.pc = "loop"
       /\ Len(after) >= Len(safechain.messages) + n
       /\ \A k \in 1..n :
              LET m == after[Len(after) - n + k] IN
              /\ Get(m, "role", "") = "tool"
              /\ Get(m, "name", "") = tool_calls[k].name
              /\ Get(m, "content", <<>>) # <<>>

\* C39: in the orchestrator's loop a response of the model that requests
\* a tool is not returned as the final answer: the run goes on, and for
\* every requested tool, also one the agent does not have or one that
\* raises, a tool message with its result or error text is appended
C39_ToolRequestIsNeverFinal ==
    [][\A response \in ModelResponses :
          (response.tool_calls # <<>> /\ PassOn(response))
              => AnsweredEach(response.tool_calls)]_vars

\* the requests for tools the agent has are answered, also when the tool
\* raises
KnownToolRequestsAreAnswered ==
    [][\A response \in ModelResponses :
          (/\ response.tool_calls # <<>>
           /\ \A k \in 1..Len(response.tool_calls) :
                  response.tool_calls[k].name \in SafeChainTools
           /\ PassOn(response))
              => AnsweredEach(response.tool_calls)]_vars

====
